---- MODULE Spec2Model ----
(***************************************************************************)
(* Key-custody (KACLS) core of the secure chat system: the master-key      *)
(* manager (config/masterKey.js), the identity service's token and         *)
(* revocation routes (routes/auth.js), the KACLS signing-key cache         *)
(* (services/authService.js), the dual-authorization gate                  *)
(* (middleware/auth.js, verifyDualAuth) and the browser client's message   *)
(* encryption flow (client/src/services/crypto.js, Chat.jsx).              *)
(*                                                                         *)
(* Cryptography is symbolic: a ciphertext names the key, the IV and the    *)
(* plaintext it was made from, an authentication tag names the key, the IV *)
(* and the ciphertext it authenticates, a signature names the key pair     *)
(* that made it.  Encodings (UTF-8, base64) are computed.                  *)
(***************************************************************************)
EXTENDS Integers, Sequences, FiniteSets, TLC

VARIABLES
    \* ---- config/masterKey.js (module state and files) ----
    phase,             \* "down" | "ready" | "aborted": the KACLS process around initMasterKey
    currentMasterKey,  \* let currentMasterKey = null   (0 models null)
    keyVersion,        \* let keyVersion = 1
    keyCreatedAt,      \* let keyCreatedAt = null       (-1 models null), seconds
    keyFile,           \* contents of MASTER_KEY_PATH
    rotationLog,       \* lines of KEY_ROTATION_LOG
    wrapped,           \* history of wrapKey calls: envelope returned + what went in
    lastCall,          \* the last wrapKey / unwrapKey call: its argument and outcome
    storagePassword,   \* process.env.STORAGE_PASSWORD of the running process
    restarts,          \* number of times the process was started again
    \* ---- identity service: routes/auth.js, config/keys.js, config/database.js ----
    jwtSecret,         \* key pair whose private key is JWT_SECRET
    issued,            \* tokens /login has returned
    tokenBlacklist,    \* rows of table token_blacklist
    \* ---- KACLS: services/authService.js, middleware/auth.js ----
    listening,         \* app.listen has been called
    publicKeyCache,    \* publicKeyCache entry 'auth_public_key'
    redisBlacklist,    \* jtis for which Redis holds blacklist:<jti> = 'true'
    gate,              \* the request verifyDualAuth is working on
    \* ---- web client (Chat.jsx, crypto.js) and message service ----
    newMessage,        \* text in the input box
    sending,           \* the sending flag of Chat.jsx
    outgoing,          \* body of the POST /api/messages under way
    received,          \* request bodies the message service accepted
    \* ---- calls observed ----
    lastFetch,         \* the last fetchAuthPublicKey call on the running KACLS
    generatedKeys,     \* the key objects generateMasterKey has returned, in order
    everRevoked,       \* the jtis a logout has ever put into token_blacklist
    lastVerify,        \* the last POST /verify: its token and its answer
    \* ---- KACLS: the wrap / unwrap routes ----
    auditLog,          \* the AuditRecords written so far, in order
    \* ---- message service: middleware/auth.js ----
    optionalReq,       \* the last request optionalAuth has handled
    \* ---- message service: routes/rooms.js, config/database.js ----
    chatRooms,         \* committed rows of table chat_rooms, by id
    roomMembers,       \* committed rows of table room_members
    dbClients,         \* the pool's clients: checked out or idle, in a transaction or not
    lastRoomResponse,  \* the last answer a room handler has sent
    \* ---- message service: createUserRateLimit of middleware/auth.js ----
    limiter,           \* the middleware createUserRateLimit has returned, if any
    userRequests,      \* its Map userRequests: user id -> timestamps
    passedAt,          \* observation: the instants at which it has called next(), by user
    lastLimit,         \* the last request it has handled, and how
    \* ---- message service: acquireLock of config/redis.js ----
    lockStore,         \* the keys lock:<lockKey> of Redis: value and expiry
    lockCallers,       \* the callers of acquireLock: where each is, and what it holds
    lockValues,        \* the number of lock values generated so far
    lastRelease,       \* the last release() that has run, and its result
    \* ---- KACLS: config/redis.js ----
    client,            \* let client = null   (0 models null)
    connections,       \* the clients redis.createClient has made, and their state
    connCallers,       \* the callers of getRedisClient and closeRedisClient
    returned,          \* observation: what getRedisClient has returned, and its state then
    \* ---- time ----
    now,               \* Date.now(), in seconds
    ticks              \* number of clock advances so far

keyVars == <<phase, currentMasterKey, keyVersion, keyCreatedAt, keyFile,
             rotationLog, wrapped, lastCall, storagePassword, restarts>>

idpVars == <<jwtSecret, issued, tokenBlacklist>>

gateVars == <<listening, publicKeyCache, redisBlacklist, gate>>

clientVars == <<newMessage, sending, outgoing, received>>

obsVars == <<lastFetch, generatedKeys, everRevoked, lastVerify>>

timeVars == <<now, ticks>>

routeVars == <<auditLog>>

coreVars == <<keyVars, idpVars, gateVars, clientVars, obsVars, timeVars, routeVars>>

optVars == <<optionalReq>>

roomVars == <<chatRooms, roomMembers, dbClients, lastRoomResponse>>

limitVars == <<limiter, userRequests, passedAt, lastLimit>>

lockVars == <<lockStore, lockCallers, lockValues, lastRelease>>

connVars == <<client, connections, connCallers, returned>>

svcVars == <<optVars, roomVars, limitVars, lockVars, connVars>>

\* the state of the other parts, for each part
notOpt == <<roomVars, limitVars, lockVars, connVars>>

notRoom == <<optVars, limitVars, lockVars, connVars>>

notLimit == <<optVars, roomVars, lockVars, connVars>>

notLock == <<optVars, roomVars, limitVars, connVars>>

notConn == <<optVars, roomVars, limitVars, lockVars>>

vars == <<coreVars, svcVars>>

----------------------------------------------------------------------------
(* Bounds of the model *)

NumKeys == 2          \* distinct values crypto.randomBytes(32) may return
MaxVersion == 3       \* rotations stop at this version
MaxRestarts == 1      \* restarts of the KACLS process
MaxWraps == 2         \* wrapKey calls recorded
MaxTicks == 1         \* advances of the clock (key lifecycle)
MaxRedisKeys == 1     \* blacklist:<jti> keys present in Redis

MaxMessages == 2      \* messages the message service accepts

----------------------------------------------------------------------------
(* Encodings *)

Chars == {"a", "e_acute"}

ReplacementChar == "U+FFFD"

\* DEKs handed to wrapKey: text, as the 'utf8' input encoding takes it
Deks == {<<"a">>, <<"a", "e_acute">>}

\* Buffer.from(str, 'utf8') for one character
Utf8EncodeChar(c) == IF c = "a" THEN <<97>> ELSE <<195, 169>>

RECURSIVE Utf8Encode(_)
Utf8Encode(s) ==
    IF s = <<>> THEN <<>>
    ELSE Utf8EncodeChar(Head(s)) \o Utf8Encode(Tail(s))

\* the 'latin1' output encoding: one character per byte (used as a mutant)
RECURSIVE Latin1Decode(_)
Latin1Decode(b) ==
    IF b = <<>> THEN <<>>
    ELSE <<(IF Head(b) = 97 THEN "a" ELSE ReplacementChar)>> \o Latin1Decode(Tail(b))

\* buf.toString('utf8'): multi-byte sequences are assembled, ill-formed
\* bytes become U+FFFD
RECURSIVE Utf8Decode(_)
Utf8Decode(b) ==
    IF b = <<>> THEN <<>>
    ELSE IF Head(b) = 97 THEN <<"a">> \o Utf8Decode(Tail(b))
    ELSE IF Len(b) >= 2 /\ b[1] = 195 /\ b[2] = 169
         THEN <<"e_acute">> \o Utf8Decode(SubSeq(b, 3, Len(b)))
    ELSE <<ReplacementChar>> \o Utf8Decode(Tail(b))

\* base64 text of a value, and its decoding
Base64Encode(x) == [enc |-> "base64", data |-> x]

Base64Decode(s) == s.data

----------------------------------------------------------------------------
(* AES-256-GCM through crypto.createCipher / createDecipher *)

\* createCipher(algorithm, password): key and IV are both derived from the
\* password alone (no salt, no per-call randomness)
EVP_BytesToKey(password) == [key |-> password, iv |-> password]

\* a ciphertext that is no output of any encryption
GarbageCt == [key |-> 0, iv |-> 0, pt |-> <<>>]

GcmEncrypt(k, iv, bytes) == [key |-> k, iv |-> iv, pt |-> bytes]

GcmTag(k, iv, ct) == [key |-> k, iv |-> iv, ct |-> ct]

\* an absent (undefined or empty) authTag, and a tag that is no output of GCM
NoTag == [key |-> -1, iv |-> -1, ct |-> GarbageCt]

GarbageTag == [key |-> 0, iv |-> 0, ct |-> GarbageCt]

\* the authTag field of an envelope that carries none (undefined or '')
AbsentField == [enc |-> "absent", data |-> NoTag]

Truthy(field) == field.enc # "absent"

Failure == [ok |-> FALSE, value |-> <<>>]

Success(v) == [ok |-> TRUE, value |-> v]
----------------------------------------------------------------------------
(* config/masterKey.js *)

\* const maxAge = 90 * 24 * 60 * 60 * 1000 (ms), here in seconds
MaxAgeSeconds == 90 * 24 * 60 * 60

KeyBytes == 1..NumKeys

StoragePasswords == {"default-dev-password", "other-password"}

NoFile == [exists |-> FALSE, storageKey |-> "", data |-> [key |-> 0, version |-> 0, createdAt |-> 0]]

\* crypto.createHash('sha256').update(key).digest('hex').substring(0, 16)
KeyId(key) == <<"sha256", key>>

\* generateMasterKey: version is the module's keyVersion plus one
generateMasterKey(key, kv, t) ==
    [key |-> key, version |-> kv + 1, createdAt |-> t]

\* logKeyRotation: oldVersion is the module's keyVersion when it is called
logKeyRotation(keyObject, kv) ==
    [action |-> "KEY_ROTATION", oldVersion |-> kv, newVersion |-> keyObject.version]

\* saveMasterKey: encrypt under the storage password, write the file, then
\* append the log line.  writeOk / logOk say whether fs.writeFileSync and
\* fs.appendFileSync succeed; a failure is rethrown.
saveMasterKey(keyObject, kv, pw, file, log, writeOk, logOk) ==
    IF ~writeOk THEN [file |-> file, log |-> log, threw |-> TRUE]
    ELSE LET f == [exists |-> TRUE, storageKey |-> pw, data |-> keyObject]
         IN  IF ~logOk THEN [file |-> f, log |-> log, threw |-> TRUE]
             ELSE [file |-> f, log |-> Append(log, logKeyRotation(keyObject, kv)),
                   threw |-> FALSE]

\* loadMasterKey: null (found = FALSE) when the file is absent, and also when
\* decrypting or parsing it throws
loadMasterKey(file, pw) ==
    IF ~file.exists THEN [found |-> FALSE, keyData |-> NoFile.data]
    ELSE IF file.storageKey # pw THEN [found |-> FALSE, keyData |-> NoFile.data]
    ELSE [found |-> TRUE, keyData |-> file.data]

\* getCurrentMasterKey that returns currentMasterKey whatever it is
getCurrentMasterKeyUnchecked(mk) == [threw |-> FALSE, key |-> mk]

\* getCurrentMasterKey: throws when currentMasterKey is null
getCurrentMasterKey(mk) ==
    IF mk = 0 THEN [threw |-> TRUE, key |-> 0] ELSE [threw |-> FALSE, key |-> mk]

\* wrapKey that tags the envelope with the version the module started with
\* instead of the current one
wrapKeyInitialVersion(dek, mk, kv) ==
    LET cur == getCurrentMasterKey(mk)
        kiv == EVP_BytesToKey(cur.key)
        ct  == GcmEncrypt(kiv.key, kiv.iv, Utf8Encode(dek))
    IN  IF cur.threw THEN [threw |-> TRUE, env |-> [wrappedKey |-> Base64Encode(GarbageCt),
                                                    authTag |-> Base64Encode(GarbageTag),
                                                    version |-> 0]]
        ELSE [threw |-> FALSE,
              env |-> [wrappedKey |-> Base64Encode(ct),
                       authTag |-> Base64Encode(GcmTag(kiv.key, kiv.iv, ct)),
                       version |-> 1]]

\* wrapKey(dek) under the module state (mk, kv)
wrapKey(dek, mk, kv) ==
    LET cur == getCurrentMasterKey(mk)
        kiv == EVP_BytesToKey(cur.key)
        ct  == GcmEncrypt(kiv.key, kiv.iv, Utf8Encode(dek))
    IN  IF cur.threw THEN [threw |-> TRUE, env |-> [wrappedKey |-> Base64Encode(GarbageCt),
                                                    authTag |-> Base64Encode(GarbageTag),
                                                    version |-> 0]]
        ELSE [threw |-> FALSE,
              env |-> [wrappedKey |-> Base64Encode(ct),
                       authTag |-> Base64Encode(GcmTag(kiv.key, kiv.iv, ct)),
                       version |-> kv]]

\* decipher.update + decipher.final of AES-GCM: fails unless a tag was set
\* and it is the tag of this ciphertext under this key and IV
GcmDecrypt(k, iv, ct, tagSet, tag) ==
    IF ~tagSet THEN Failure
    ELSE IF tag # GcmTag(k, iv, ct) THEN Failure
    ELSE Success(ct.pt)

\* unwrapKey that decrypts without authenticating when no tag is supplied
unwrapKeyTagOptional(wrappedData, mk) ==
    LET cur == getCurrentMasterKey(mk)
        kiv == EVP_BytesToKey(cur.key)
        ct  == Base64Decode(wrappedData.wrappedKey)
        plain == IF Truthy(wrappedData.authTag)
                 THEN GcmDecrypt(kiv.key, kiv.iv, ct, TRUE,
                                 Base64Decode(wrappedData.authTag))
                 ELSE Success(ct.pt)
    IN  IF cur.threw THEN Failure
        ELSE IF ~plain.ok THEN Failure
        ELSE Success(Utf8Decode(plain.value))

\* unwrapKey(wrappedData) under the module state mk: the current master key
\* is used whatever wrappedData.version says
unwrapKey(wrappedData, mk) ==
    LET cur == getCurrentMasterKey(mk)
        kiv == EVP_BytesToKey(cur.key)
        tagSet == Truthy(wrappedData.authTag)
        plain == GcmDecrypt(kiv.key, kiv.iv, Base64Decode(wrappedData.wrappedKey),
                            tagSet, Base64Decode(wrappedData.authTag))
    IN  IF cur.threw THEN Failure
        ELSE IF ~plain.ok THEN Failure
        ELSE Success(Utf8Decode(plain.value))

\* the error raised inside the try block of unwrapKey: by getCurrentMasterKey,
\* or by decipher.final() when the tag does not verify
unwrapKeyCaught(wrappedData, mk) ==
    IF getCurrentMasterKey(mk).threw THEN "Master key not initialized"
    ELSE IF ~unwrapKey(wrappedData, mk).ok
    THEN "Unsupported state or unable to authenticate data"
    ELSE ""

\* the message of the Error unwrapKey throws to its caller: the catch block
\* logs the error it caught and throws a new one
unwrapKeyThrown(wrappedData, mk) ==
    IF unwrapKeyCaught(wrappedData, mk) = "" THEN ""
    ELSE "Key unwrapping operation failed"

\* keyId: null when there is no master key
NullKeyId == <<"null", 0>>

\* getKeyInfo that also hands out the key, as generateMasterKey's key object does
getKeyInfoWithKey(mk, kv, createdAt) ==
    [version |-> kv, algorithm |-> "AES-256-GCM", createdAt |-> createdAt,
     keyId |-> IF mk # 0 THEN KeyId(mk) ELSE NullKeyId,
     key |-> Base64Encode(mk)]

\* getKeyInfo() under the module state (mk, kv, createdAt)
getKeyInfo(mk, kv, createdAt) ==
    [version |-> kv, algorithm |-> "AES-256-GCM", createdAt |-> createdAt,
     keyId |-> IF mk # 0 THEN KeyId(mk) ELSE NullKeyId]

\* the body GET /info answers with while the module state is (mk, kv,
\* createdAt): the handler reads none of it (features and description, which
\* are fixed texts too, are left out)
info(mk, kv, createdAt) ==
    [service |-> "Key Access Control List Service", version |-> "1.0.0",
     security |-> [encryption |-> "AES-256-GCM",
                   authentication |-> "JWT + Third-party IdP",
                   keyRotation |-> "Automatic", accessControl |-> "Role-based"]]
----------------------------------------------------------------------------
(* The KACLS process and its master key: state after the module is loaded *)

NoEnvelope == [wrappedKey |-> Base64Encode(GarbageCt), authTag |-> AbsentField,
               version |-> 0]

\* a record of wrapped: the envelope wrapKey returned, the DEK it was given and
\* the master key and IV the cipher ran with
WrapRecord(env, dek, mk) ==
    [env |-> env, dek |-> dek, mk |-> mk, iv |-> EVP_BytesToKey(mk).iv]

\* lastCall: op is the function called; src the record of the envelope the
\* argument was made from; arg the argument (unwrapKey) or the envelope returned
\* (wrapKey); result the value returned, Failure for a throw; sameKey: no new
\* master key since src was wrapped; genuine: arg's wrappedKey and authTag are
\* those of one envelope wrapKey returned; reused: the wrap ran with a master
\* key and IV an earlier wrap ran with
NoCall == [op |-> "none", src |-> WrapRecord(NoEnvelope, <<>>, 0), arg |-> NoEnvelope,
           result |-> Failure, sameKey |-> FALSE, genuine |-> FALSE, reused |-> FALSE]

KeyInit ==
    /\ phase = "down"
    /\ currentMasterKey = 0
    /\ keyVersion = 1
    /\ keyCreatedAt = -1
    /\ keyFile = NoFile
    /\ rotationLog = <<>>
    /\ wrapped = {}
    /\ lastCall = NoCall
    /\ storagePassword = "default-dev-password"
    /\ restarts = 0

\* rotateMasterKey started from module state (mk, kv): the module variables are
\* assigned first, the new key is saved afterwards
rotateMasterKey(k, kv, pw, file, log, writeOk, logOk) ==
    LET newKeyObject == generateMasterKey(k, kv, now)
        saved == saveMasterKey(newKeyObject, newKeyObject.version, pw, file, log,
                               writeOk, logOk)
    IN  [mk |-> newKeyObject.key, kv |-> newKeyObject.version,
         createdAt |-> newKeyObject.createdAt,
         file |-> saved.file, log |-> saved.log, threw |-> saved.threw]

\* the age test with the operands of the subtraction exchanged
keyIsOldSwapped(createdAt, t) == createdAt - t > MaxAgeSeconds

\* keyAge > maxAge, with keyAge = Date.now() - keyCreatedAt.getTime()
keyIsOld(createdAt, t) == t - createdAt > MaxAgeSeconds

\* initMasterKey, called by startServer; an exception ends the process
InitMasterKey(k, writeOk, logOk) ==
    /\ phase = "down"
    /\ LET existingKey == loadMasterKey(keyFile, storagePassword)
       IN  IF existingKey.found
           THEN IF keyIsOld(existingKey.keyData.createdAt, now)
                    THEN /\ existingKey.keyData.version < MaxVersion
                         /\ LET r == rotateMasterKey(k, existingKey.keyData.version,
                                                     storagePassword, keyFile,
                                                     rotationLog, writeOk, logOk)
                            IN  /\ currentMasterKey' = r.mk
                                /\ keyVersion' = r.kv
                                /\ keyCreatedAt' = r.createdAt
                                /\ keyFile' = r.file
                                /\ rotationLog' = r.log
                                /\ phase' = IF r.threw THEN "aborted" ELSE "ready"
                                /\ generatedKeys' = Append(generatedKeys,
                                       [key |-> r.mk, version |-> r.kv])
                    ELSE /\ writeOk /\ logOk
                         /\ currentMasterKey' = existingKey.keyData.key
                         /\ keyVersion' = existingKey.keyData.version
                         /\ keyCreatedAt' = existingKey.keyData.createdAt
                         /\ phase' = "ready"
                         /\ UNCHANGED <<keyFile, rotationLog, generatedKeys>>
           ELSE LET newKey == generateMasterKey(k, keyVersion, now)
                    saved == saveMasterKey(newKey, newKey.version, storagePassword,
                                           keyFile, rotationLog, writeOk, logOk)
                IN  /\ currentMasterKey' = newKey.key
                    /\ keyVersion' = newKey.version
                    /\ keyCreatedAt' = newKey.createdAt
                    /\ keyFile' = saved.file
                    /\ rotationLog' = saved.log
                    /\ phase' = IF saved.threw THEN "aborted" ELSE "ready"
                    /\ generatedKeys' = Append(generatedKeys,
                           [key |-> newKey.key, version |-> newKey.version])
    /\ UNCHANGED <<svcVars, routeVars, wrapped, lastCall, storagePassword, restarts, idpVars, gateVars,
                   timeVars, clientVars, lastFetch, everRevoked, lastVerify>>

\* rotateMasterKey called on the running service
RotateMasterKey(k, writeOk, logOk) ==
    /\ phase = "ready"
    /\ keyVersion < MaxVersion
    /\ LET r == rotateMasterKey(k, keyVersion, storagePassword, keyFile,
                                rotationLog, writeOk, logOk)
       IN  /\ currentMasterKey' = r.mk
           /\ keyVersion' = r.kv
           /\ keyCreatedAt' = r.createdAt
           /\ keyFile' = r.file
           /\ rotationLog' = r.log
           /\ generatedKeys' = Append(generatedKeys, [key |-> r.mk, version |-> r.kv])
    /\ UNCHANGED <<svcVars, routeVars, phase, wrapped, lastCall, storagePassword, restarts, idpVars, gateVars,
                   timeVars, clientVars, lastFetch, everRevoked, lastVerify>>

\* a wrapKey(dek) call
WrapKey(dek) ==
    /\ phase \in {"down", "ready"}
    /\ Cardinality(wrapped) < MaxWraps
    /\ LET r == wrapKey(dek, currentMasterKey, keyVersion)
       IN  IF r.threw
           THEN /\ lastCall' = [NoCall EXCEPT !.op = "wrap"]
                /\ UNCHANGED wrapped
           ELSE LET w == WrapRecord(r.env, dek, currentMasterKey)
                IN  /\ lastCall' = [op |-> "wrap", src |-> w, arg |-> r.env,
                                    result |-> Success(dek), sameKey |-> TRUE,
                                    genuine |-> TRUE,
                                    reused |-> \E o \in wrapped : o.mk = w.mk /\ o.iv = w.iv]
                    /\ wrapped' = wrapped \cup {w}
    /\ UNCHANGED <<svcVars, routeVars, phase, currentMasterKey, keyVersion, keyCreatedAt, keyFile,
                   rotationLog, storagePassword, restarts, idpVars, gateVars, timeVars, clientVars, obsVars>>

\* what a holder of the envelopes can put into the wrappedKey and authTag
\* fields: a field of any envelope it was handed, garbage, or nothing
KnownWrappedKeys == {w.env.wrappedKey : w \in wrapped} \cup {Base64Encode(GarbageCt)}

KnownAuthTags == {w.env.authTag : w \in wrapped}
                     \cup {Base64Encode(GarbageTag), AbsentField}

\* no new master key was made current since envelope w was wrapped
SameKey(w) == w.mk = currentMasterKey /\ w.env.version = keyVersion

\* an unwrapKey(wrappedData) call; wrappedData is envelope number src with
\* its wrappedKey and authTag fields possibly replaced
UnwrapKey(src, wk, tag) ==
    /\ phase \in {"down", "ready"}
    /\ src \in wrapped
    /\ LET arg == [wrappedKey |-> wk, authTag |-> tag, version |-> src.env.version]
       IN  lastCall' = [op |-> "unwrap", src |-> src, arg |-> arg,
                        result |-> unwrapKey(arg, currentMasterKey),
                        sameKey |-> SameKey(src),
                        genuine |-> \E w \in wrapped : /\ w.env.wrappedKey = wk
                                                        /\ w.env.authTag = tag,
                        reused |-> FALSE]
    /\ UNCHANGED <<svcVars, routeVars, phase, currentMasterKey, keyVersion, keyCreatedAt, keyFile,
                   rotationLog, wrapped, storagePassword, restarts, idpVars, gateVars, timeVars, clientVars, obsVars>>

\* the process stops (or has exited) and is started again: module state is
\* back to its initial values, files stay
Restart(pw) ==
    /\ phase \in {"ready", "aborted"}
    /\ restarts < MaxRestarts
    /\ restarts' = restarts + 1
    /\ phase' = "down"
    /\ currentMasterKey' = 0
    /\ keyVersion' = 1
    /\ keyCreatedAt' = -1
    /\ storagePassword' = pw
    /\ UNCHANGED <<svcVars, routeVars, keyFile, rotationLog, wrapped, lastCall, idpVars, gateVars, timeVars, clientVars, obsVars>>

KeyTickSteps == {MaxAgeSeconds, MaxAgeSeconds + 1}

TickKeys(d) ==
    /\ ticks < MaxTicks
    /\ now' = now + d
    /\ ticks' = ticks + 1
    /\ UNCHANGED <<svcVars, routeVars, keyVars, idpVars, gateVars, clientVars, obsVars>>

TimeInit == now = 0 /\ ticks = 0

----------------------------------------------------------------------------
(* Identity service: config/keys.js, routes/auth.js, config/database.js *)

\* no key
NoKey == "none"

\* the key pair config/keys.js holds in `keys` (loaded from the key files or
\* generated when they are absent); getPublicKey() returns its public key
KeysPair == "keys"

\* the key pair a generateKeyPair() call made by routes/auth.js creates
GeneratedPair == "generated"

\* a key pair the identity service never had
ForeignPair == "foreign"

\* const JWT_SECRET = process.env.JWT_PRIVATE_KEY || generateKeyPair().privateKey
\* (the variable, when set, holds the private key of the pair in `keys`)
JWT_SECRET(envSet) == IF envSet THEN KeysPair ELSE GeneratedPair

getPublicKey == KeysPair

\* exp: Math.floor(Date.now() / 1000) + (24 * 60 * 60)
TokenLifetime == 24 * 60 * 60

\* rows of the users table over time: (id, username); a user may have been
\* renamed between two logins
Users == {<<"u1", "alice">>, <<"u1", "bob">>, <<"u2", "bob">>}

NoToken == [jti |-> 0, sub |-> "", username |-> "", iat |-> 0, exp |-> 0, signer |-> NoKey]

\* the payload /login signs
LoginToken(jti, sub, username, t, secret) ==
    [jti |-> jti, sub |-> sub, username |-> username, iat |-> t,
     exp |-> t + TokenLifetime, signer |-> secret]

\* tokens signed by somebody else, with claims of their choosing
Forged == {[jti |-> 1, sub |-> "u1", username |-> "alice", iat |-> 0,
            exp |-> TokenLifetime, signer |-> ForeignPair]}

\* jwt.verify(token, key, {algorithms: ['RS256'], clockTolerance: tolerance})
\* at time t: the signature first, then exp
JwtVerify(token, key, tolerance, t) ==
    IF token.signer = NoKey \/ key = NoKey \/ token.signer # key
    THEN [ok |-> FALSE, message |-> "invalid signature"]
    ELSE IF t >= token.exp + tolerance
    THEN [ok |-> FALSE, message |-> "jwt expired"]
    ELSE [ok |-> TRUE, message |-> ""]

IdpInit ==
    /\ jwtSecret = NoKey
    /\ issued = {}
    /\ tokenBlacklist = {}

\* the identity service starts: routes/auth.js is loaded
IdpStart(envSet) ==
    /\ jwtSecret = NoKey
    /\ jwtSecret' = JWT_SECRET(envSet)
    /\ UNCHANGED <<svcVars, routeVars, issued, tokenBlacklist, keyVars, gateVars, timeVars, clientVars, obsVars>>

\* the token ids crypto.randomUUID() hands out
Jtis == {1, 2}

\* crypto.randomUUID(): an id that has not been handed out
randomUUID(used) == CHOOSE jti \in Jtis : jti \notin used

\* POST /login with valid credentials of user (sub, username)
Login(sub, username) ==
    /\ jwtSecret # NoKey
    /\ \E jti \in Jtis : \A t \in issued : t.jti # jti
    /\ issued' = issued \cup
          {LoginToken(randomUUID({t.jti : t \in issued}), sub, username, now, jwtSecret)}
    /\ UNCHANGED <<svcVars, routeVars, jwtSecret, tokenBlacklist, keyVars, gateVars, timeVars, clientVars, obsVars>>

\* the jtis that have a row in token_blacklist
LedgerJtis(rows) == {row.token_jti : row \in rows}

\* POST /logout with a bearer token: verify it, then INSERT INTO
\* token_blacklist (token_jti is UNIQUE); any exception answers 500
logout(token, rows, t) ==
    LET decoded == JwtVerify(token, getPublicKey, 0, t)
    IN  IF token = NoToken
        THEN [status |-> 400, error |-> "No token provided", rows |-> rows]
        ELSE IF ~decoded.ok \/ token.jti \in LedgerJtis(rows)
        THEN [status |-> 500, error |-> "Logout failed", rows |-> rows]
        ELSE [status |-> 200, error |-> "",
              rows |-> rows \cup {[token_jti |-> token.jti, user_id |-> token.sub,
                                   expired_at |-> token.exp]}]

Logout(token) ==
    /\ jwtSecret # NoKey
    /\ tokenBlacklist' = logout(token, tokenBlacklist, now).rows
    /\ everRevoked' = everRevoked \cup LedgerJtis(tokenBlacklist')
    /\ UNCHANGED <<svcVars, routeVars, jwtSecret, issued, keyVars, gateVars, timeVars, clientVars,
                   lastFetch, generatedKeys, lastVerify>>

\* cleanupExpiredTokens that deletes the rows of tokens issued before now
cleanupIssuedBefore(rows, t) ==
    {row \in rows : ~(row.expired_at - TokenLifetime < t)}

\* cleanupExpiredTokens: DELETE FROM token_blacklist WHERE expired_at < NOW()
cleanupExpiredTokens(rows, t) == {row \in rows : ~(row.expired_at < t)}

CleanupExpiredTokens ==
    /\ jwtSecret # NoKey
    /\ tokenBlacklist' = cleanupExpiredTokens(tokenBlacklist, now)
    /\ UNCHANGED <<svcVars, routeVars, jwtSecret, issued, keyVars, gateVars, timeVars, clientVars, obsVars>>

\* POST /verify with a bearer token; userActive: the users table has an active
\* row for the token's sub
verify(token, rows, t, userActive) ==
    LET decoded == JwtVerify(token, getPublicKey, 0, t)
    IN  IF token = NoToken
        THEN [status |-> 401, valid |-> FALSE, error |-> "No token provided"]
        ELSE IF ~decoded.ok
        THEN [status |-> 401, valid |-> FALSE,
              error |-> IF decoded.message = "jwt expired"
                        THEN "Token has expired" ELSE "Invalid token"]
        ELSE IF token.jti \in LedgerJtis(rows)
        THEN [status |-> 401, valid |-> FALSE, error |-> "Token has been revoked"]
        ELSE IF ~userActive
        THEN [status |-> 401, valid |-> FALSE, error |-> "User not found or inactive"]
        ELSE [status |-> 200, valid |-> TRUE, error |-> ""]

NoVerify == [called |-> FALSE, token |-> NoToken, wasRevoked |-> FALSE,
             status |-> 0, valid |-> FALSE, error |-> ""]

Verify(token, userActive) ==
    /\ jwtSecret # NoKey
    /\ LET r == verify(token, tokenBlacklist, now, userActive)
       IN  lastVerify' = [called |-> TRUE, token |-> token,
                          wasRevoked |-> token.jti \in everRevoked,
                          status |-> r.status, valid |-> r.valid, error |-> r.error]
    /\ UNCHANGED <<svcVars, routeVars, idpVars, keyVars, gateVars, timeVars, clientVars,
                   lastFetch, generatedKeys, everRevoked>>

----------------------------------------------------------------------------
(* KACLS signing-key cache: services/authService.js *)

\* new NodeCache({ stdTTL: 300 })
StdTTL == 300

NoEntry == [key |-> NoKey, t |-> 0]

\* publicKeyCache.get('auth_public_key'): undefined (NoKey) when there is no entry
\* or its time has passed
CacheGet(cache, t) == IF cache.key # NoKey /\ ~(cache.t < t) THEN cache.key ELSE NoKey

\* the cache after a get: an entry whose time has passed is deleted
CacheAfterGet(cache, t) == IF CacheGet(cache, t) = NoKey THEN NoEntry ELSE cache

\* getAuthPublicKey()
getAuthPublicKey(cache, t) == CacheGet(cache, t)

\* fetchAuthPublicKey(): fetchOk says whether the GET /api/auth/public-key
\* answers with a public key
fetchAuthPublicKey(cache, t, fetchOk) ==
    IF CacheGet(cache, t) # NoKey
    THEN [threw |-> FALSE, key |-> CacheGet(cache, t), cache |-> cache]
    ELSE IF fetchOk
    THEN [threw |-> FALSE, key |-> getPublicKey,
          cache |-> [key |-> getPublicKey, t |-> t + StdTTL]]
    ELSE [threw |-> TRUE, key |-> NoKey, cache |-> NoEntry]

\* startServer after initMasterKey: fetch the public key, then listen; an
\* exception ends the process
StartServer(fetchOk) ==
    /\ phase = "ready"
    /\ ~listening
    /\ LET r == fetchAuthPublicKey(publicKeyCache, now, fetchOk /\ jwtSecret # NoKey)
       IN  /\ publicKeyCache' = r.cache
           /\ listening' = ~r.threw
           /\ phase' = IF r.threw THEN "aborted" ELSE phase
    /\ UNCHANGED <<svcVars, routeVars, currentMasterKey, keyVersion, keyCreatedAt, keyFile, rotationLog,
                   wrapped, lastCall, storagePassword, restarts,
                   redisBlacklist, gate, idpVars, timeVars, clientVars, obsVars>>

\* no fetchAuthPublicKey call observed yet
NoFetch == [called |-> FALSE, fetchOk |-> FALSE, entryBefore |-> NoEntry,
            at |-> 0, threw |-> FALSE, key |-> NoKey]

ObsInit ==
    /\ lastFetch = NoFetch
    /\ generatedKeys = <<>>
    /\ everRevoked = {}
    /\ lastVerify = NoVerify

\* fetchAuthPublicKey() called on the running service (a refresh)
FetchAuthPublicKey(fetchOk) ==
    /\ listening
    /\ LET r == fetchAuthPublicKey(publicKeyCache, now, fetchOk /\ jwtSecret # NoKey)
       IN  /\ publicKeyCache' = r.cache
           /\ lastFetch' = [called |-> TRUE, fetchOk |-> fetchOk /\ jwtSecret # NoKey,
                            entryBefore |-> publicKeyCache, at |-> now,
                            threw |-> r.threw, key |-> r.key]
    /\ UNCHANGED <<svcVars, routeVars, listening, redisBlacklist, gate, generatedKeys, everRevoked, lastVerify,
                   keyVars, idpVars, timeVars, clientVars>>

\* clearPublicKeyCache()
ClearPublicKeyCache ==
    /\ listening
    /\ publicKeyCache # NoEntry
    /\ publicKeyCache' = NoEntry
    /\ UNCHANGED <<svcVars, routeVars, listening, redisBlacklist, gate, keyVars, idpVars, timeVars, clientVars, obsVars>>

\* some client of the Redis server sets blacklist:<jti> = 'true'
RedisSetBlacklist(jti) ==
    /\ jti \notin redisBlacklist
    /\ Cardinality(redisBlacklist) < MaxRedisKeys
    /\ redisBlacklist' = redisBlacklist \cup {jti}
    /\ UNCHANGED <<svcVars, routeVars, listening, publicKeyCache, gate, keyVars, idpVars, timeVars, clientVars, obsVars>>

----------------------------------------------------------------------------
(* The dual-authorization gate: middleware/auth.js, verifyDualAuth *)

\* clockTolerance: 30
ClockTolerance == 30

\* verifyJWT(token, publicKey) at time t
verifyJWT(token, publicKey, t) ==
    LET r == JwtVerify(token, publicKey, ClockTolerance, t)
    IN  [ok |-> r.ok,
         message |-> IF r.ok THEN "" ELSE "JWT verification failed: " \o r.message]

\* checkTokenBlacklist(jti): redisOk says whether getRedisClient() and
\* redis.get succeed; an exception is answered with false
checkTokenBlacklist(jti, redisOk, blacklist) ==
    IF redisOk THEN jti \in blacklist ELSE FALSE

NoAuth == [id |-> "", username |-> "", jti |-> 0, thirdPartyJti |-> 0]

\* gate: pc is the request's position; token / thirdPartyToken the two header
\* values; authPublicKey the key the request obtained; status / error /
\* message the response sent; responses / nextCalls count res.json() and
\* next() calls; auth is req.auth;
\* revokedAtStart the jtis in token_blacklist when the request arrived
IdleGate == [pc |-> "idle", token |-> NoToken, thirdPartyToken |-> NoToken,
             authPublicKey |-> NoKey, status |-> 0, error |-> "", message |-> "",
             responses |-> 0, nextCalls |-> 0, auth |-> NoAuth,
             revokedAtStart |-> {}]

GateInit ==
    /\ listening = FALSE
    /\ publicKeyCache = NoEntry
    /\ redisBlacklist = {}
    /\ gate = IdleGate

\* res.status(status).json({error, message}) and return
Deny(g, status, error, message) ==
    [g EXCEPT !.pc = "Denied", !.status = status, !.error = error,
              !.message = message, !.responses = @ + 1]

\* the check passed: go on
Pass(g, pc) == [g EXCEPT !.pc = pc]

Presentable == issued \cup Forged \cup {NoToken}

\* a request reaches verifyDualAuth with the two header values
GateRequest(token, thirdPartyToken) ==
    /\ listening
    /\ gate.pc = "idle"
    /\ gate' = [IdleGate EXCEPT !.pc = "Start", !.token = token,
                                !.thirdPartyToken = thirdPartyToken,
                                !.revokedAtStart =
                                    {row.token_jti : row \in tokenBlacklist}]
    /\ UNCHANGED <<svcVars, routeVars, listening, publicKeyCache, redisBlacklist, keyVars, idpVars, timeVars, clientVars, obsVars>>

\* gateCheckResource without the 503 answer: a request that finds no public key
\* goes on unverified
gateCheckResourceFailOpen(g, cache, t) ==
    LET key == getAuthPublicKey(cache, t)
        v   == verifyJWT(g.token, key, t)
    IN  IF g.token = NoToken
        THEN Deny(g, 401, "Missing or invalid authorization header", "")
        ELSE IF g.thirdPartyToken = NoToken
        THEN Deny(g, 401, "Missing third-party authentication token",
                  "KACLS requires dual authentication")
        ELSE IF key # NoKey /\ ~v.ok
        THEN Deny([g EXCEPT !.authPublicKey = key], 401,
                  "Invalid Google JWT token", v.message)
        ELSE Pass([g EXCEPT !.authPublicKey = key], "AwaitBlacklist")

\* lines 306-344: the headers, the public key, verifyJWT of the bearer token;
\* then redis.get is awaited
gateCheckResource(g, cache, t) ==
    LET key == getAuthPublicKey(cache, t)
        v   == verifyJWT(g.token, key, t)
    IN  IF g.token = NoToken
        THEN Deny(g, 401, "Missing or invalid authorization header", "")
        ELSE IF g.thirdPartyToken = NoToken
        THEN Deny(g, 401, "Missing third-party authentication token",
                  "KACLS requires dual authentication")
        ELSE IF key = NoKey
        THEN Deny(g, 503, "Authentication service unavailable", "")
        ELSE IF ~v.ok
        THEN Deny([g EXCEPT !.authPublicKey = key], 401,
                  "Invalid Google JWT token", v.message)
        ELSE Pass([g EXCEPT !.authPublicKey = key], "AwaitBlacklist")

GateCheckResource ==
    /\ gate.pc = "Start"
    /\ gate' = gateCheckResource(gate, publicKeyCache, now)
    /\ publicKeyCache' = IF gate.token = NoToken \/ gate.thirdPartyToken = NoToken
                         THEN publicKeyCache
                         ELSE CacheAfterGet(publicKeyCache, now)
    /\ UNCHANGED <<svcVars, routeVars, listening, redisBlacklist, keyVars, idpVars, timeVars, clientVars, obsVars>>

\* gateBlacklist whose denial lacks the return: the response is sent and the
\* handler goes on
gateBlacklistNoReturn(g, redisOk, blacklist) ==
    IF checkTokenBlacklist(g.token.jti, redisOk, blacklist)
    THEN [Deny(g, 401, "Token has been revoked", "") EXCEPT !.pc = "ResourceTokenChecked"]
    ELSE Pass(g, "ResourceTokenChecked")

\* lines 346-352: the answer of checkTokenBlacklist(googleJWT.jti)
gateBlacklist(g, redisOk, blacklist) ==
    IF checkTokenBlacklist(g.token.jti, redisOk, blacklist)
    THEN Deny(g, 401, "Token has been revoked", "")
    ELSE Pass(g, "ResourceTokenChecked")

GateBlacklist(redisOk) ==
    /\ gate.pc = "AwaitBlacklist"
    /\ gate' = gateBlacklist(gate, redisOk, redisBlacklist)
    /\ UNCHANGED <<svcVars, routeVars, listening, publicKeyCache, redisBlacklist, keyVars, idpVars, timeVars, clientVars, obsVars>>

\* lines 354-365: verifyJWT of the x-third-party-token with the same key
gateCheckIdentity(g, t) ==
    LET v == verifyJWT(g.thirdPartyToken, g.authPublicKey, t)
    IN  IF ~v.ok
        THEN Deny(g, 401, "Invalid third-party JWT token", v.message)
        ELSE Pass(g, "IdentityTokenChecked")

GateCheckIdentity ==
    /\ gate.pc = "ResourceTokenChecked"
    /\ gate' = gateCheckIdentity(gate, now)
    /\ UNCHANGED <<svcVars, routeVars, listening, publicKeyCache, redisBlacklist, keyVars, idpVars, timeVars, clientVars, obsVars>>

\* gateMatchSubjects that denies only when both sub and username differ
gateMatchSubjectsBothDiffer(g) ==
    IF g.token.sub # g.thirdPartyToken.sub /\ g.token.username # g.thirdPartyToken.username
    THEN Deny(g, 401, "Token mismatch",
              "Google JWT and third-party JWT must belong to the same user")
    ELSE Pass(g, "SubjectsMatched")

\* lines 367-373: both tokens belong to the same user
gateMatchSubjects(g) ==
    IF g.token.sub # g.thirdPartyToken.sub \/ g.token.username # g.thirdPartyToken.username
    THEN Deny(g, 401, "Token mismatch",
              "Google JWT and third-party JWT must belong to the same user")
    ELSE Pass(g, "SubjectsMatched")

GateMatchSubjects ==
    /\ gate.pc = "IdentityTokenChecked"
    /\ gate' = gateMatchSubjects(gate)
    /\ UNCHANGED <<svcVars, routeVars, listening, publicKeyCache, redisBlacklist, keyVars, idpVars, timeVars, clientVars, obsVars>>

\* lines 375-405: the expiry check, req.auth, next()
gateAuthorize(g, t) ==
    IF g.token.exp < t \/ g.thirdPartyToken.exp < t
    THEN Deny(g, 401, "Token expired", "")
    ELSE [Pass(g, "Authorized") EXCEPT
             !.auth = [id |-> g.token.sub, username |-> g.token.username,
                       jti |-> g.token.jti, thirdPartyJti |-> g.thirdPartyToken.jti],
             !.nextCalls = @ + 1]

GateAuthorize ==
    /\ gate.pc = "SubjectsMatched"
    /\ gate' = gateAuthorize(gate, now)
    /\ UNCHANGED <<svcVars, routeVars, listening, publicKeyCache, redisBlacklist, keyVars, idpVars, timeVars, clientVars, obsVars>>

\* the instants at which the clock is read: a token issued at 0 is fresh, one
\* second past its exp, and past the tolerance
Instants == {0, TokenLifetime + 1, TokenLifetime + ClockTolerance}

\* time passes
TickGate(t) ==
    /\ t > now
    /\ now' = t
    /\ UNCHANGED <<svcVars, routeVars, ticks, keyVars, idpVars, gateVars, clientVars, obsVars>>

\* the request is over: Express has run the rest of the chain after next(),
\* or the error response has been sent
RequestDone ==
    /\ gate.pc \in {"Authorized", "Denied"}
    /\ gate' = IdleGate
    /\ UNCHANGED <<svcVars, routeVars, listening, publicKeyCache, redisBlacklist, keyVars, idpVars, timeVars, clientVars, obsVars>>

\* verifyDualAuth gives up the event loop only while it awaits Redis: the
\* other processes and the clock are interleaved there and between requests
GateYields == gate.pc \in {"idle", "AwaitBlacklist"}

GateNext ==
    \/ GateYields /\ \E writeOk \in BOOLEAN : InitMasterKey(1, writeOk, TRUE)
    \/ GateYields /\ \E fetchOk \in BOOLEAN : StartServer(fetchOk)
    \/ GateYields /\ \E envSet \in BOOLEAN : IdpStart(envSet)
    \/ GateYields /\ \E user \in Users : Login(user[1], user[2])
    \/ GateYields /\ \E token \in issued \cup Forged : Logout(token)
    \/ GateYields /\ CleanupExpiredTokens
    \/ GateYields /\ ClearPublicKeyCache
    \/ GateYields /\ \E jti \in {t.jti : t \in issued} : RedisSetBlacklist(jti)
    \/ GateYields /\ \E t \in Instants : TickGate(t)
    \/ \E token \in Presentable, thirdPartyToken \in Presentable :
          GateRequest(token, thirdPartyToken)
    \/ GateCheckResource
    \/ \E redisOk \in BOOLEAN : GateBlacklist(redisOk)
    \/ GateCheckIdentity
    \/ GateMatchSubjects
    \/ GateAuthorize
    \/ RequestDone


----------------------------------------------------------------------------
(* KACLS key routes: POST /api/kacls/wrap and POST /api/kacls/unwrap, mounted
   behind verifyDualAuth. The server announces them and the web client calls
   them; their handlers are the EnvelopeKeyService of the specification. *)

MaxAudit == 2

\* AuditRecord: operation kind, subject, outcome, timestamp
AuditRecord(operation, subject, outcome, t) ==
    [operation |-> operation, subject |-> subject, outcome |-> outcome, at |-> t]

RouteInit == auditLog = <<>>

\* POST /wrap reached after next(): wrapKey(dek), one AuditRecord, the answer
KeysWrap(dek) ==
    /\ gate.pc = "Authorized"
    /\ Cardinality(wrapped) < MaxWraps
    /\ Len(auditLog) < MaxAudit
    /\ LET r == wrapKey(dek, currentMasterKey, keyVersion)
       IN  IF r.threw
           THEN /\ lastCall' = [NoCall EXCEPT !.op = "wrap"]
                /\ auditLog' = Append(auditLog,
                       AuditRecord("wrap", gate.auth.id, "failure", now))
                /\ UNCHANGED wrapped
           ELSE LET w == WrapRecord(r.env, dek, currentMasterKey)
                IN  /\ lastCall' = [op |-> "wrap", src |-> w, arg |-> r.env,
                                    result |-> Success(dek), sameKey |-> TRUE,
                                    genuine |-> TRUE,
                                    reused |-> \E o \in wrapped : o.mk = w.mk /\ o.iv = w.iv]
                    /\ wrapped' = wrapped \cup {w}
                    /\ auditLog' = Append(auditLog,
                           AuditRecord("wrap", gate.auth.id, "success", now))
    /\ gate' = IdleGate
    /\ UNCHANGED <<svcVars, phase, currentMasterKey, keyVersion, keyCreatedAt, keyFile,
                   rotationLog, storagePassword, restarts, listening, publicKeyCache,
                   redisBlacklist, idpVars, timeVars, clientVars, obsVars>>

\* POST /unwrap reached after next(): unwrapKey(wrappedData), one AuditRecord,
\* the answer
KeysUnwrap(src, wk, tag) ==
    /\ gate.pc = "Authorized"
    /\ src \in wrapped
    /\ Len(auditLog) < MaxAudit
    /\ LET arg == [wrappedKey |-> wk, authTag |-> tag, version |-> src.env.version]
           r   == unwrapKey(arg, currentMasterKey)
       IN  /\ lastCall' = [op |-> "unwrap", src |-> src, arg |-> arg, result |-> r,
                           sameKey |-> SameKey(src),
                           genuine |-> \E w \in wrapped : /\ w.env.wrappedKey = wk
                                                           /\ w.env.authTag = tag,
                           reused |-> FALSE]
           /\ auditLog' = Append(auditLog,
                  AuditRecord("unwrap", gate.auth.id,
                              IF r.ok THEN "success" ELSE "failure", now))
    /\ gate' = IdleGate
    /\ UNCHANGED <<svcVars, phase, currentMasterKey, keyVersion, keyCreatedAt, keyFile,
                   rotationLog, wrapped, storagePassword, restarts, listening,
                   publicKeyCache, redisBlacklist, idpVars, timeVars, clientVars, obsVars>>

----------------------------------------------------------------------------
(* Message service: middleware/auth.js, verifyAuth and optionalAuth *)

\* the Authorization header of a request: absent, of another scheme, or
\* "Bearer <token>"
NoHeader == [scheme |-> "", token |-> NoToken]

BasicHeader == [scheme |-> "Basic", token |-> NoToken]

Bearer(token) == [scheme |-> "Bearer", token |-> token]

\* authHeader && authHeader.startsWith('Bearer ')
IsBearer(header) == header.scheme = "Bearer"

\* req.auth: set says whether the middleware has assigned it
NoReqAuth == [set |-> FALSE, id |-> "", username |-> "", jti |-> 0,
              isAnonymous |-> FALSE]

AnonymousAuth == [set |-> TRUE, id |-> "", username |-> "", jti |-> 0,
                  isAnonymous |-> TRUE]

\* what a middleware has done with a request: the res.json() calls, the
\* status and error of the answer, the next() calls, req.auth
Untouched == [responses |-> 0, status |-> 0, error |-> "", nextCalls |-> 0,
              auth |-> NoReqAuth]

Respond(status, error) ==
    [Untouched EXCEPT !.responses = 1, !.status = status, !.error = error]

\* verifyAuth(req, res, next): authPublicKey is what getAuthPublicKey()
\* returns, redisOk whether the Redis calls succeed; it returns normally on
\* every path
verifyAuth(header, authPublicKey, t, redisOk, blacklist) ==
    LET token == header.token
    IN  IF ~IsBearer(header)
        THEN Respond(401, "Missing or invalid authorization header")
        ELSE IF authPublicKey = NoKey
        THEN Respond(503, "Authentication service unavailable")
        ELSE IF ~verifyJWT(token, authPublicKey, t).ok
        THEN Respond(401, "Invalid JWT token")
        ELSE IF checkTokenBlacklist(token.jti, redisOk, blacklist)
        THEN Respond(401, "Token has been revoked")
        ELSE IF token.exp < t
        THEN Respond(401, "Token expired")
        ELSE [Untouched EXCEPT
                 !.auth = [set |-> TRUE, id |-> token.sub, username |-> token.username,
                           jti |-> token.jti, isAnonymous |-> FALSE],
                 !.nextCalls = 1]

\* optionalAuth(req, res, next): with a bearer header the request is handed
\* to verifyAuth, whose promise resolves whatever it answered, so the catch
\* block does not run
optionalAuth(header, authPublicKey, t, redisOk, blacklist) ==
    IF IsBearer(header)
    THEN verifyAuth(header, authPublicKey, t, redisOk, blacklist)
    ELSE [Untouched EXCEPT !.auth = AnonymousAuth, !.nextCalls = 1]

NoOptionalReq == [called |-> FALSE]

OptInit == optionalReq = NoOptionalReq

\* a request passes through optionalAuth
OptionalAuth(header, authPublicKey, redisOk) ==
    /\ optionalReq' = [called |-> TRUE, header |-> header,
                       authPublicKey |-> authPublicKey, at |-> now,
                       outcome |-> optionalAuth(header, authPublicKey, now, redisOk,
                                                redisBlacklist)]
    /\ UNCHANGED <<coreVars, notOpt>>

\* the message service behind optionalAuth: the identity service issues
\* tokens, Redis gets blacklist keys, the clock advances
OptionalNext ==
    \/ \E envSet \in BOOLEAN : IdpStart(envSet)
    \/ \E user \in Users : Login(user[1], user[2])
    \/ \E jti \in {t.jti : t \in issued} : RedisSetBlacklist(jti)
    \/ \E t \in Instants : TickGate(t)
    \/ \E header \in {NoHeader, BasicHeader} \cup {Bearer(tok) : tok \in issued \cup Forged},
          authPublicKey \in {NoKey, getPublicKey}, redisOk \in BOOLEAN :
          OptionalAuth(header, authPublicKey, redisOk)

----------------------------------------------------------------------------
(* Message service: routes/rooms.js over the tables of config/database.js.
   Each handler takes a client from the pool and runs its statements on it;
   statements see what is committed (READ COMMITTED) and the handler's writes
   become visible with its COMMIT. *)

MaxClients == 2

\* the instants at which room requests arrive
MaxRoomTime == 1

RoomIds == {"r1"}

RoomUsers == {"u1", "u2", "u3"}

\* max_members values a request body carries
RoomSizes == {2}

ClientIds == 1..MaxClients

NoRoom == [exists |-> FALSE]

NoReq == [op |-> "none", user |-> "", room |-> "", target |-> "",
          rowExists |-> FALSE, currentMembers |-> 0, at |-> 0]

IdleClient == [busy |-> FALSE, inTransaction |-> FALSE]

NoRoomResponse == [op |-> "none", user |-> "", room |-> "", status |-> 0,
                   error |-> "", wasOwner |-> FALSE, others |-> {}]

RoomInit ==
    /\ chatRooms = [r \in RoomIds |-> NoRoom]
    /\ roomMembers = {}
    /\ dbClients = [c \in ClientIds |-> IdleClient]
    /\ lastRoomResponse = [op |-> "none"]

\* SELECT ... FROM room_members WHERE room_id = $1 AND user_id = $2
MemberRows(rows, room, user) ==
    {m \in rows : m.room_id = room /\ m.user_id = user}

\* ... AND is_active = true
ActiveMemberRows(rows, room, user) ==
    {m \in MemberRows(rows, room, user) : m.is_active}

\* SELECT COUNT(*) FROM room_members WHERE room_id = $1 AND is_active = true
ActiveCount(rows, room) ==
    Cardinality({m \in rows : m.room_id = room /\ m.is_active})

\* SELECT user_id FROM room_members WHERE room_id = $1 AND user_id != $2 AND
\* is_active = true: the other active members
OtherActive(rows, room, user) ==
    {m \in rows : m.room_id = room /\ m.user_id # user /\ m.is_active}

\* ... ORDER BY joined_at ASC LIMIT 1: the rows that query can return
EarliestJoined(rows, room, user) ==
    {m \in OtherActive(rows, room, user) :
        \A o \in OtherActive(rows, room, user) : m.joined_at <= o.joined_at}

\* UPDATE room_members SET role = $1 WHERE room_id = $2 AND user_id = $3
SetRole(rows, room, user, role) ==
    {IF m.room_id = room /\ m.user_id = user THEN [m EXCEPT !.role = role] ELSE m
        : m \in rows}

\* UPDATE room_members SET is_active = false WHERE room_id = $1 AND user_id = $2
SetInactive(rows, room, user) ==
    {IF m.room_id = room /\ m.user_id = user THEN [m EXCEPT !.is_active = FALSE] ELSE m
        : m \in rows}

\* UPDATE room_members SET is_active = true, joined_at = CURRENT_TIMESTAMP ...
Reactivate(rows, room, user, t) ==
    {IF m.room_id = room /\ m.user_id = user
     THEN [m EXCEPT !.is_active = TRUE, !.joined_at = t] ELSE m : m \in rows}

\* INSERT INTO room_members (room_id, user_id, user_name, role)
MemberRow(room, user, role, t) ==
    [room_id |-> room, user_id |-> user, role |-> role, is_active |-> TRUE,
     joined_at |-> t]

\* pool.connect() hands out client c; client.query('BEGIN') on it
Checkout(clients, c, req) ==
    [clients EXCEPT ![c] = [busy |-> TRUE, inTransaction |-> TRUE, req |-> req]]

\* client.release() after COMMIT or ROLLBACK
ReleaseEnded(clients, c) == [clients EXCEPT ![c] = IdleClient]

\* client.release() on a path that has sent its answer with return: no
\* COMMIT and no ROLLBACK was issued on the client
ReleaseOpen(clients, c) ==
    [clients EXCEPT ![c] = [busy |-> FALSE, inTransaction |-> TRUE]]

RoomResponse(op, user, room, status, error) ==
    [NoRoomResponse EXCEPT !.op = op, !.user = user, !.room = room,
                           !.status = status, !.error = error]

\* POST /: the room and its owner row are inserted and committed
CreateRoom(c, user, room, maxMembers) ==
    /\ ~dbClients[c].busy
    /\ ~chatRooms[room].exists
    /\ chatRooms' = [chatRooms EXCEPT ![room] =
                        [exists |-> TRUE, is_active |-> TRUE,
                         max_members |-> maxMembers, created_by |-> user]]
    /\ roomMembers' = roomMembers \cup {MemberRow(room, user, "owner", now)}
    /\ dbClients' = ReleaseEnded(dbClients, c)
    /\ lastRoomResponse' = RoomResponse("create", user, room, 201, "")
    /\ UNCHANGED <<coreVars, notRoom>>

\* the statements of POST /:roomId/leave up to the system event, on the
\* committed rows: the rows as the handler has left them
leaveWrites(rooms, rows, room, user) ==
    LET userRole == (CHOOSE m \in ActiveMemberRows(rows, room, user) : TRUE).role
        others   == EarliestJoined(rows, room, user)
    IN  {[rooms |-> IF userRole = "owner" /\ others = {}
                    THEN [rooms EXCEPT ![room].is_active = FALSE] ELSE rooms,
          rows  |-> SetInactive(IF userRole = "owner" /\ others # {}
                                THEN SetRole(rows, room, newOwner.user_id, "owner")
                                ELSE rows,
                                room, user)]
           : newOwner \in IF userRole = "owner" /\ others # {} THEN others
                          ELSE {MemberRow(room, user, userRole, 0)}}

\* POST /:roomId/leave.  The eventData of the system event reads
\* otherMembersResult, a const of the block of `if (userRole === 'owner')`,
\* after that block: for an owner the expression is evaluated and throws a
\* ReferenceError, the catch block rolls back and answers 500
Leave(c, user, room) ==
    /\ ~dbClients[c].busy
    /\ IF ActiveMemberRows(roomMembers, room, user) = {}
       THEN /\ dbClients' = ReleaseOpen(dbClients, c)
            /\ lastRoomResponse' = RoomResponse("leave", user, room, 404,
                                                "Not a member of this room")
            /\ UNCHANGED <<chatRooms, roomMembers>>
       ELSE LET userRole ==
                    (CHOOSE m \in ActiveMemberRows(roomMembers, room, user) : TRUE).role
                answer(status, error) ==
                    [RoomResponse("leave", user, room, status, error) EXCEPT
                        !.wasOwner = userRole = "owner",
                        !.others = {m.user_id :
                                      m \in EarliestJoined(roomMembers, room, user)}]
            IN  IF userRole = "owner"
                THEN /\ dbClients' = ReleaseEnded(dbClients, c)
                     /\ lastRoomResponse' = answer(500, "Failed to leave room")
                     /\ UNCHANGED <<chatRooms, roomMembers>>
                ELSE /\ \E w \in leaveWrites(chatRooms, roomMembers, room, user) :
                           /\ chatRooms' = w.rooms
                           /\ roomMembers' = w.rows
                     /\ dbClients' = ReleaseEnded(dbClients, c)
                     /\ lastRoomResponse' = answer(200, "")
    /\ UNCHANGED <<coreVars, notRoom>>

\* POST /:roomId/join, the statements before the write: roomCheck,
\* memberCheck and the COUNT of active members.  A path that answers with
\* return leaves the try block through finally, which releases the client
JoinCheck(c, user, room) ==
    /\ ~dbClients[c].busy
    /\ LET answer(status, error) ==
               /\ dbClients' = ReleaseOpen(dbClients, c)
               /\ lastRoomResponse' = RoomResponse("join", user, room, status, error)
       IN  IF ~(chatRooms[room].exists /\ chatRooms[room].is_active)
           THEN answer(404, "Room not found")
           ELSE IF ActiveMemberRows(roomMembers, room, user) # {}
           THEN answer(409, "Already a member")
           ELSE IF ActiveCount(roomMembers, room) >= chatRooms[room].max_members
           THEN answer(403, "Room is full")
           ELSE /\ dbClients' = Checkout(dbClients, c,
                       [NoReq EXCEPT !.op = "join", !.user = user, !.room = room,
                                     !.target = user,
                                     !.rowExists = MemberRows(roomMembers, room, user) # {},
                                     !.currentMembers = ActiveCount(roomMembers, room),
                                     !.at = now])
                /\ UNCHANGED lastRoomResponse
    /\ UNCHANGED <<chatRooms, roomMembers, coreVars, notRoom>>

\* POST /:roomId/invite, the statements before the write
InviteCheck(c, user, room, userId) ==
    /\ ~dbClients[c].busy
    /\ LET answer(status, error) ==
               /\ dbClients' = ReleaseOpen(dbClients, c)
               /\ lastRoomResponse' = RoomResponse("invite", user, room, status, error)
           inviter == ActiveMemberRows(roomMembers, room, user)
       IN  IF userId = ""
           THEN answer(400, "Missing required fields")
           ELSE IF inviter = {}
           THEN answer(404, "Room not found or access denied")
           ELSE IF (CHOOSE m \in inviter : TRUE).role \notin {"owner", "admin"}
           THEN answer(403, "Permission denied")
           ELSE IF ActiveMemberRows(roomMembers, room, userId) # {}
           THEN answer(409, "User is already a member")
           ELSE IF ~(chatRooms[room].exists /\ chatRooms[room].is_active)
           THEN answer(404, "Room not found")
           ELSE IF ActiveCount(roomMembers, room) >= chatRooms[room].max_members
           THEN answer(403, "Room is full")
           ELSE /\ dbClients' = Checkout(dbClients, c,
                       [NoReq EXCEPT !.op = "invite", !.user = user, !.room = room,
                                     !.target = userId,
                                     !.rowExists = MemberRows(roomMembers, room, userId) # {},
                                     !.currentMembers = ActiveCount(roomMembers, room),
                                     !.at = now])
                /\ UNCHANGED lastRoomResponse
    /\ UNCHANGED <<chatRooms, roomMembers, coreVars, notRoom>>

\* the rest of join and invite: the UPDATE or INSERT the handler has chosen
\* from its memberCheck, the system event, COMMIT and the answer.  An INSERT
\* of a (room_id, user_id) that another request has committed meanwhile
\* violates UNIQUE(room_id, user_id): the catch block rolls back and
\* answers 500
MemberWrite(c) ==
    /\ dbClients[c].busy
    /\ dbClients[c].req.op \in {"join", "invite"}
    /\ LET req == dbClients[c].req
       IN  IF req.rowExists
           THEN /\ roomMembers' = Reactivate(roomMembers, req.room, req.target, req.at)
                /\ lastRoomResponse' = RoomResponse(req.op, req.user, req.room, 200, "")
           ELSE IF MemberRows(roomMembers, req.room, req.target) # {}
           THEN /\ lastRoomResponse' =
                       RoomResponse(req.op, req.user, req.room, 500,
                                    IF req.op = "join" THEN "Failed to join room"
                                    ELSE "Failed to invite user")
                /\ UNCHANGED roomMembers
           ELSE /\ roomMembers' = roomMembers \cup
                                    {MemberRow(req.room, req.target, "member", req.at)}
                /\ lastRoomResponse' = RoomResponse(req.op, req.user, req.room, 200, "")
    /\ dbClients' = ReleaseEnded(dbClients, c)
    /\ UNCHANGED <<chatRooms, coreVars, notRoom>>

\* the bodies of PUT /:roomId: maxMembers is absent or a number, and so are
\* the other fields
UpdateBodies == [maxMembers : {{}, {3}}, name : {{}, {"n"}}]

\* PUT /:roomId
UpdateRoom(c, user, room, body) ==
    /\ ~dbClients[c].busy
    /\ LET answer(status, error) ==
               /\ dbClients' = ReleaseOpen(dbClients, c)
               /\ lastRoomResponse' = RoomResponse("update", user, room, status, error)
               /\ UNCHANGED chatRooms
           permission == ActiveMemberRows(roomMembers, room, user)
       IN  IF permission = {}
           THEN answer(404, "Room not found or access denied")
           ELSE IF (CHOOSE m \in permission : TRUE).role \notin {"owner", "admin"}
           THEN answer(403, "Permission denied")
           ELSE IF body.maxMembers = {} /\ body.name = {}
           THEN answer(400, "No fields to update")
           ELSE /\ chatRooms' =
                       IF body.maxMembers = {} THEN chatRooms
                       ELSE [chatRooms EXCEPT ![room].max_members =
                                 CHOOSE n \in body.maxMembers : TRUE]
                /\ dbClients' = ReleaseEnded(dbClients, c)
                /\ lastRoomResponse' = RoomResponse("update", user, room, 200, "")
    /\ UNCHANGED <<roomMembers, coreVars, notRoom>>

\* the room handlers under concurrent requests
RoomsNext ==
    \/ \E t \in 1..MaxRoomTime : TickGate(t)
    \/ \E c \in ClientIds, user \in RoomUsers, room \in RoomIds, n \in RoomSizes :
          CreateRoom(c, user, room, n)
    \/ \E c \in ClientIds, user \in RoomUsers, room \in RoomIds : JoinCheck(c, user, room)
    \/ \E c \in ClientIds, user \in RoomUsers, room \in RoomIds,
          userId \in RoomUsers \cup {""} : InviteCheck(c, user, room, userId)
    \/ \E c \in ClientIds : MemberWrite(c)
    \/ \E c \in ClientIds, user \in RoomUsers, room \in RoomIds : Leave(c, user, room)
    \/ \E c \in ClientIds, user \in RoomUsers, room \in RoomIds, body \in UpdateBodies :
          UpdateRoom(c, user, room, body)

----------------------------------------------------------------------------
(* Message service: createUserRateLimit of middleware/auth.js, a sliding
   window over the timestamps of the requests let through, per user. *)

\* the instants at which requests arrive at the rate limiter
MaxLimitTime == 3

\* the windowMs and maxRequests the middleware is created with
Windows == {1, 2}

Limits == {1, 2}

LimitUsers == {"u1", "u2"}

\* a request without req.auth or with req.auth.user null
NoUser == ""

NoLimiter == [created |-> FALSE]

NoLimit == [status |-> 0]

LimitInit ==
    /\ limiter = NoLimiter
    /\ userRequests = << >>
    /\ passedAt = [u \in LimitUsers |-> << >>]
    /\ lastLimit = NoLimit

\* requests.filter(timestamp => timestamp > windowStart)
validRequests(requests, windowStart) ==
    SelectSeq(requests, LAMBDA timestamp : timestamp > windowStart)

limitReachedOffByOne(userRequestList, maxRequests) ==
    Len(userRequestList) > maxRequests

\* userRequestList.length >= maxRequests
limitReached(userRequestList, maxRequests) ==
    Len(userRequestList) >= maxRequests

\* the Map after the clean-up of expired timestamps
cleaned(requests, userId, t, windowMs) ==
    IF userId \in DOMAIN requests
    THEN [requests EXCEPT ![userId] = validRequests(requests[userId], t - windowMs)]
    ELSE requests

\* userRequests.get(userId) || []
getOrEmpty(requests, userId) ==
    IF userId \in DOMAIN requests THEN requests[userId] ELSE << >>

\* userRequests.set(userId, list)
mapSet(requests, userId, list) ==
    [u \in DOMAIN requests \cup {userId} |-> IF u = userId THEN list ELSE requests[u]]

\* the middleware on one request of userId at instant t: the Map afterwards,
\* the status of the answer (0: none) and the calls of next()
userRateLimit(requests, userId, t, windowMs, maxRequests) ==
    IF userId = NoUser
    THEN [requests |-> requests, status |-> 0, nextCalls |-> 1]
    ELSE LET kept == cleaned(requests, userId, t, windowMs)
             userRequestList == getOrEmpty(kept, userId)
         IN  IF limitReached(userRequestList, maxRequests)
             THEN [requests |-> kept, status |-> 429, nextCalls |-> 0]
             ELSE [requests |-> mapSet(kept, userId, Append(userRequestList, t)),
                   status |-> 0, nextCalls |-> 1]

\* createUserRateLimit(windowMs, maxRequests): a middleware with an empty Map
CreateUserRateLimit(windowMs, maxRequests) ==
    /\ ~limiter.created
    /\ limiter' = [created |-> TRUE, windowMs |-> windowMs, maxRequests |-> maxRequests]
    /\ UNCHANGED <<userRequests, passedAt, lastLimit, coreVars, notLimit>>

\* a request of userId passes through the middleware
UserRateLimit(userId) ==
    /\ limiter.created
    /\ LET out == userRateLimit(userRequests, userId, now,
                                limiter.windowMs, limiter.maxRequests)
       IN  /\ userRequests' = out.requests
           /\ passedAt' = IF userId # NoUser /\ out.nextCalls = 1
                          THEN [passedAt EXCEPT ![userId] = Append(@, now)]
                          ELSE passedAt
           /\ lastLimit' = [user |-> userId, at |-> now, status |-> out.status,
                            nextCalls |-> out.nextCalls]
    /\ UNCHANGED <<limiter, coreVars, notLimit>>

\* requests arrive at the rate limiter as time passes
LimitNext ==
    \/ \E windowMs \in Windows, maxRequests \in Limits :
          CreateUserRateLimit(windowMs, maxRequests)
    \/ \E userId \in LimitUsers \cup {NoUser} : UserRateLimit(userId)
    \/ \E t \in 1..MaxLimitTime : TickGate(t)

----------------------------------------------------------------------------
(* Message service: acquireLock of config/redis.js.  Redis runs each command
   and each script atomically; a key set with PX is gone once its time to
   live has passed.  Time is counted in seconds. *)

\* the instants at which lock requests arrive
MaxLockTime == 3

\* the calls of acquireLock
MaxLockCalls == 2

LockCallers == {"a", "b"}

LockKeys == {"k1", "k2"}

\* the ttl and maxRetries acquireLock is called with
Ttls == {1, 2}

Retries == {1, 2}

IdleCaller == [pc |-> "idle"]

NoRelease == [caller |-> "", result |-> "none"]

LockInit ==
    /\ lockStore = << >>
    /\ lockCallers = [c \in LockCallers |-> IdleCaller]
    /\ lockValues = 0
    /\ lastRelease = NoRelease

\* the key exists at instant t
lockExists(store, key, t) == key \in DOMAIN store /\ t < store[key].expiresAt

\* SET of a key
setKey(store, key, entry) ==
    [k \in DOMAIN store \cup {key} |-> IF k = key THEN entry ELSE store[k]]

\* DEL of a key
delKey(store, key) == [k \in DOMAIN store \ {key} |-> store[k]]

\* client.set(key, value, {PX: ttl * 1000, NX: true}): 'OK' when the key did
\* not exist, and then the key holds value for ttl seconds
setNX(store, key, value, ttl, t) ==
    IF lockExists(store, key, t)
    THEN [store |-> store, result |-> "null"]
    ELSE [store |-> setKey(store, key, [value |-> value, expiresAt |-> t + ttl]),
          result |-> "OK"]

releaseUnchecked(store, key, value, t) ==
    [store |-> delKey(store, key), result |-> "1"]

\* the script of release(): if redis.call("GET", KEYS[1]) == ARGV[1] then
\* return redis.call("DEL", KEYS[1]) else return 0 end
release(store, key, value, t) ==
    IF lockExists(store, key, t) /\ store[key].value = value
    THEN [store |-> delKey(store, key), result |-> "1"]
    ELSE [store |-> store, result |-> "0"]

\* acquireLock(lockKey, ttl, retryDelay, maxRetries) is called: the value
\* `${Date.now()}-${Math.random()}` is one no other call has generated
AcquireLock(c, key, ttl, maxRetries) ==
    /\ lockCallers[c].pc = "idle"
    /\ lockValues < MaxLockCalls
    /\ lockValues' = lockValues + 1
    /\ lockCallers' = [lockCallers EXCEPT ![c] =
                          [pc |-> "trying", key |-> key, value |-> lockValues + 1,
                           ttl |-> ttl, i |-> 0, maxRetries |-> maxRetries,
                           expiresAt |-> 0]]
    /\ UNCHANGED <<lockStore, lastRelease, coreVars, notLock>>

\* one round of the loop of acquireLock: the SET, and on 'OK' the return of
\* the lock; otherwise the next round after retryDelay, or
\* {acquired: false} after maxRetries rounds
TrySet(c) ==
    /\ lockCallers[c].pc = "trying"
    /\ LET me == lockCallers[c]
           out == setNX(lockStore, me.key, me.value, me.ttl, now)
       IN  /\ lockStore' = out.store
           /\ lockCallers' = [lockCallers EXCEPT ![c] =
                  IF out.result = "OK"
                  THEN [me EXCEPT !.pc = "holding", !.expiresAt = now + me.ttl]
                  ELSE IF me.i + 1 < me.maxRetries
                  THEN [me EXCEPT !.i = me.i + 1]
                  ELSE IdleCaller]
    /\ UNCHANGED <<lockValues, lastRelease, coreVars, notLock>>

\* release() of the lock acquireLock has returned to c.  client.eval is
\* called as (script, 1, key, value); whether the client library binds
\* KEYS[1] and ARGV[1] from these arguments is the library's affair: the
\* script runs on them, or the call fails and the store is as it was
Release(c) ==
    /\ lockCallers[c].pc = "holding"
    /\ LET me == lockCallers[c]
           out == release(lockStore, me.key, me.value, now)
       IN  \/ /\ lockStore' = out.store
              /\ lastRelease' = [caller |-> c, result |-> out.result]
           \/ /\ lockStore' = lockStore
              /\ lastRelease' = [caller |-> c, result |-> "error"]
    /\ lockCallers' = [lockCallers EXCEPT ![c] = IdleCaller]
    /\ UNCHANGED <<lockValues, coreVars, notLock>>

\* callers compete for the locks as time passes
LockNext ==
    \/ \E c \in LockCallers, key \in LockKeys, ttl \in Ttls, maxRetries \in Retries :
          AcquireLock(c, key, ttl, maxRetries)
    \/ \E c \in LockCallers : TrySet(c)
    \/ \E c \in LockCallers : Release(c)
    \/ \E t \in 1..MaxLockTime : TickGate(t)

----------------------------------------------------------------------------
(* KACLS: config/redis.js.  getRedisClient and closeRedisClient are async
   functions of one process: each runs without interruption up to its await,
   and other callers run while it waits. *)

\* the clients redis.createClient can make
MaxConnections == 2

ConnCallers == {"a", "b", "c"}

ConnIds == 1..MaxConnections

NullClient == 0

IdleConnCaller == [pc |-> "idle"]

ConnInit ==
    /\ client = NullClient
    /\ connections = [id \in ConnIds |-> "none"]
    /\ connCallers = [c \in ConnCallers |-> IdleConnCaller]
    /\ returned = {}

\* the clients made so far
created == {id \in ConnIds : connections[id] # "none"}

\* what a return of getRedisClient hands to its caller
Returned == [client |-> client,
             state |-> IF client = NullClient THEN "null" ELSE connections[client]]

\* getRedisClient up to its await, or, with client set, to its return
GetRedisClient(c) ==
    /\ connCallers[c].pc = "idle"
    /\ IF client = NullClient
       THEN /\ Cardinality(created) < MaxConnections
            /\ LET id == Cardinality(created) + 1
               IN  /\ client' = id
                   /\ connections' = [connections EXCEPT ![id] = "connecting"]
                   /\ connCallers' = [connCallers EXCEPT ![c] =
                                         [pc |-> "connect", awaited |-> id]]
            /\ UNCHANGED returned
       ELSE /\ returned' = returned \cup {Returned}
            /\ UNCHANGED <<client, connections, connCallers>>
    /\ UNCHANGED <<coreVars, notConn>>

\* the connection of a client is established
Connected(id) ==
    /\ connections[id] = "connecting"
    /\ connections' = [connections EXCEPT ![id] = "ready"]
    /\ UNCHANGED <<client, connCallers, returned, coreVars, notConn>>

\* the connection of a client fails
ConnectFailed(id) ==
    /\ connections[id] = "connecting"
    /\ connections' = [connections EXCEPT ![id] = "failed"]
    /\ UNCHANGED <<client, connCallers, returned, coreVars, notConn>>

\* getRedisClient after await client.connect(): `return client`, or the
\* rejection of connect() thrown to the caller
GetRedisClientResume(c) ==
    /\ connCallers[c].pc = "connect"
    /\ connections[connCallers[c].awaited] # "connecting"
    /\ returned' = IF connections[connCallers[c].awaited] = "failed" THEN returned
                   ELSE returned \cup {Returned}
    /\ connCallers' = [connCallers EXCEPT ![c] = IdleConnCaller]
    /\ UNCHANGED <<client, connections, coreVars, notConn>>

\* closeRedisClient up to its await: client.quit() on an open client; on a
\* client that is not open quit() rejects and client stays as it is
CloseRedisClient(c) ==
    /\ connCallers[c].pc = "idle"
    /\ client # NullClient
    /\ IF connections[client] = "ready"
       THEN /\ connections' = [connections EXCEPT ![client] = "closing"]
            /\ connCallers' = [connCallers EXCEPT ![c] =
                                  [pc |-> "quit", awaited |-> client]]
       ELSE UNCHANGED <<connections, connCallers>>
    /\ UNCHANGED <<client, returned, coreVars, notConn>>

\* closeRedisClient after await client.quit(): client = null
CloseRedisClientResume(c) ==
    /\ connCallers[c].pc = "quit"
    /\ connections' = [connections EXCEPT ![connCallers[c].awaited] = "closed"]
    /\ client' = NullClient
    /\ connCallers' = [connCallers EXCEPT ![c] = IdleConnCaller]
    /\ UNCHANGED <<returned, coreVars, notConn>>

\* concurrent callers of getRedisClient and closeRedisClient
ConnNext ==
    \/ \E c \in ConnCallers : GetRedisClient(c)
    \/ \E id \in ConnIds : Connected(id)
    \/ \E id \in ConnIds : ConnectFailed(id)
    \/ \E c \in ConnCallers : GetRedisClientResume(c)
    \/ \E c \in ConnCallers : CloseRedisClient(c)
    \/ \E c \in ConnCallers : CloseRedisClientResume(c)

----------------------------------------------------------------------------
(* Web client: services/crypto.js, Chat.jsx; message service: routes/messages.js *)

\* message texts typed by the user
Texts == {<<"a">>, <<"e_acute">>}

\* raw AES-256 keys crypto.subtle.generateKey can return
RawKeys == {"dek1", "dek2"}

\* values of crypto.getRandomValues(new Uint8Array(12))
Ivs == {"iv1", "iv2"}

\* values of crypto.getRandomValues(new Uint8Array(16))
RandomTags == {"t1"}

\* exportDEK: the raw key, base64
exportDEK(key) == Base64Encode(key)

\* importDEK: the key whose raw bytes the base64 text holds
importDEK(base64Key) == Base64Decode(base64Key)

\* encryptWithDEK with the IV drawn: base64 of IV || ciphertext and tag
encryptWithDEK(data, key, iv) ==
    LET ct == GcmEncrypt(key, iv, Utf8Encode(data))
    IN  Base64Encode([iv |-> iv, ct |-> ct, tag |-> GcmTag(key, iv, ct)])

\* decryptWithDEK: split off the IV, decrypt and authenticate, decode
decryptWithDEK(encryptedData, key) ==
    LET combined == Base64Decode(encryptedData)
        r == GcmDecrypt(key, combined.iv, combined.ct, TRUE, combined.tag)
    IN  IF r.ok THEN Success(Utf8Decode(r.value)) ELSE Failure

\* calculateHash: SHA-256, hex
calculateHash(data) == [sha256 |-> data]

\* mockWrapDEK with the random tag and wrap id drawn
mockWrapDEK(dek, tag, wrapId) ==
    [wrappedDek |-> exportDEK(dek), authTag |-> Base64Encode(tag), wrapId |-> wrapId]

\* mockUnwrapDEK
mockUnwrapDEK(wrappedData) == importDEK(wrappedData.wrappedDek)

\* encryptMessage with the random values drawn
encryptMessage(plaintext, dek, iv, tag, wrapId) ==
    LET encryptedContent == encryptWithDEK(plaintext, dek, iv)
        wrappedData == mockWrapDEK(dek, tag, wrapId)
    IN  [encryptedContent |-> encryptedContent,
         contentHash |-> calculateHash(encryptedContent),
         wrappedDek |-> wrappedData.wrappedDek,
         dekAuthTag |-> wrappedData.authTag,
         kaclsWrapId |-> wrappedData.wrapId]

\* decryptMessage: needs nothing but the fields of the message
decryptMessage(messageData) ==
    LET dek == mockUnwrapDEK([wrappedDek |-> messageData.wrappedDek,
                              authTag |-> messageData.dekAuthTag])
    IN  IF calculateHash(messageData.encryptedContent) # messageData.contentHash
        THEN Failure
        ELSE decryptWithDEK(messageData.encryptedContent, dek)

NoBody == [roomId |-> ""]

ClientInit ==
    /\ newMessage = <<>>
    /\ sending = FALSE
    /\ outgoing = NoBody
    /\ received = {}

\* the user types into the input box
TypeMessage(text) ==
    /\ newMessage # text
    /\ newMessage' = text
    /\ UNCHANGED <<svcVars, routeVars, sending, outgoing, received, keyVars, idpVars, gateVars, timeVars, obsVars>>

\* sendMessage up to the POST: encrypt the text and build the request body
SendMessage(dek, iv, tag) ==
    /\ newMessage # <<>>
    /\ ~sending
    /\ Cardinality(received) < MaxMessages
    /\ sending' = TRUE
    /\ LET encryptedData == encryptMessage(newMessage, dek, iv, tag, "wrap-id")
       IN  outgoing' = [roomId |-> "room1",
                        encryptedContent |-> encryptedData.encryptedContent,
                        contentHash |-> encryptedData.contentHash,
                        wrappedDek |-> encryptedData.wrappedDek,
                        dekAuthTag |-> encryptedData.dekAuthTag,
                        kacls_wrap_id |-> encryptedData.kaclsWrapId]
    /\ UNCHANGED <<svcVars, routeVars, newMessage, received, keyVars, idpVars, gateVars, timeVars, obsVars>>

\* POST /api/messages behind verifyAuth (authOk: it let the request through),
\* then the rest of sendMessage: the input box is cleared on success, the
\* sending flag is lowered in any case
PostMessage(authOk) ==
    /\ sending
    /\ received' = IF authOk THEN received \cup {outgoing} ELSE received
    /\ newMessage' = IF authOk THEN <<>> ELSE newMessage
    /\ sending' = FALSE
    /\ outgoing' = NoBody
    /\ UNCHANGED <<svcVars, routeVars, keyVars, idpVars, gateVars, timeVars, obsVars>>

ClientNext ==
    \/ \E text \in Texts \cup {<<>>} : TypeMessage(text)
    \/ \E dek \in RawKeys, iv \in Ivs, tag \in RandomTags : SendMessage(dek, iv, tag)
    \/ \E authOk \in BOOLEAN : PostMessage(authOk)

KeyNext ==
    \/ \E k \in KeyBytes, writeOk \in BOOLEAN, logOk \in BOOLEAN :
          InitMasterKey(k, writeOk, logOk)
    \/ \E k \in KeyBytes, writeOk \in BOOLEAN, logOk \in BOOLEAN :
          RotateMasterKey(k, writeOk, logOk)
    \/ \E dek \in Deks : WrapKey(dek)
    \/ \E src \in wrapped, wk \in KnownWrappedKeys, tag \in KnownAuthTags :
          UnwrapKey(src, wk, tag)

SvcInit == OptInit /\ RoomInit /\ LimitInit /\ LockInit /\ ConnInit

Init == KeyInit /\ IdpInit /\ GateInit /\ ClientInit /\ ObsInit /\ TimeInit /\ RouteInit
           /\ SvcInit

SpecKeys == Init /\ [][KeyNext]_vars

SpecGate == Init /\ [][GateNext]_vars

SpecClient == Init /\ [][ClientNext]_vars

\* the master key over the life of the KACLS process: startup, rotation,
\* restarts (possibly with another STORAGE_PASSWORD) and the key growing old
LifecycleNext ==
    \/ \E k \in KeyBytes, writeOk \in BOOLEAN, logOk \in BOOLEAN :
          InitMasterKey(k, writeOk, logOk)
    \/ \E k \in KeyBytes, writeOk \in BOOLEAN, logOk \in BOOLEAN :
          RotateMasterKey(k, writeOk, logOk)
    \/ \E pw \in StoragePasswords : Restart(pw)
    \/ \E d \in KeyTickSteps : TickKeys(d)

SpecLifecycle == Init /\ [][LifecycleNext]_vars

\* the clock of the identity service: a token issued at 0 is fresh, at its
\* exp, and one second past it
IdpInstants == {0, TokenLifetime, TokenLifetime + 1}

\* the identity service: logins, logouts, verification and pruning
IdpNext ==
    \/ \E envSet \in BOOLEAN : IdpStart(envSet)
    \/ \E user \in Users : Login(user[1], user[2])
    \/ \E token \in issued \cup Forged \cup {NoToken} : Logout(token)
    \/ \E token \in issued \cup Forged \cup {NoToken}, userActive \in BOOLEAN :
          Verify(token, userActive)
    \/ CleanupExpiredTokens
    \/ \E t \in IdpInstants : TickGate(t)

SpecIdp == Init /\ [][IdpNext]_vars

\* the KACLS key directory: startup, refreshes, the cache and the clock
DirectoryNext ==
    \/ \E writeOk \in BOOLEAN : InitMasterKey(1, writeOk, TRUE)
    \/ \E envSet \in BOOLEAN : IdpStart(envSet)
    \/ \E fetchOk \in BOOLEAN : StartServer(fetchOk)
    \/ \E fetchOk \in BOOLEAN : FetchAuthPublicKey(fetchOk)
    \/ ClearPublicKeyCache
    \/ \E t \in Instants : TickGate(t)

SpecDirectory == Init /\ [][DirectoryNext]_vars

\* the KACLS serving wrap and unwrap requests: both services start, users log
\* in and out, requests pass the gate and reach the key routes
EnvelopeNext ==
    \/ GateYields /\ InitMasterKey(1, TRUE, TRUE)
    \/ GateYields /\ StartServer(TRUE)
    \/ GateYields /\ IdpStart(TRUE)
    \/ GateYields /\ \E user \in Users : Login(user[1], user[2])
    \/ GateYields /\ \E token \in issued : Logout(token)
    \/ \E token \in Presentable, thirdPartyToken \in Presentable :
          GateRequest(token, thirdPartyToken)
    \/ GateCheckResource
    \/ GateBlacklist(TRUE)
    \/ GateCheckIdentity
    \/ GateMatchSubjects
    \/ GateAuthorize
    \/ \E dek \in Deks : KeysWrap(dek)
    \/ \E src \in wrapped :
          \E tag \in {src.env.authTag, Base64Encode(GarbageTag)} :
             KeysUnwrap(src, src.env.wrappedKey, tag)
    \/ gate.pc = "Denied" /\ RequestDone

SpecEnvelope == Init /\ [][EnvelopeNext]_vars

\* the master key and its envelopes over restarts of the KACLS process: the
\* callers keep the envelopes they were handed
RestartNext ==
    \/ \E k \in KeyBytes, writeOk \in BOOLEAN, logOk \in BOOLEAN :
          InitMasterKey(k, writeOk, logOk)
    \/ \E dek \in Deks : WrapKey(dek)
    \/ \E src \in wrapped, wk \in KnownWrappedKeys, tag \in KnownAuthTags :
          UnwrapKey(src, wk, tag)
    \/ \E pw \in StoragePasswords : Restart(pw)

SpecRestart == Init /\ [][RestartNext]_vars

\* startups of the KACLS process as its key file grows old
StartupNext ==
    \/ \E k \in KeyBytes, writeOk \in BOOLEAN, logOk \in BOOLEAN :
          InitMasterKey(k, writeOk, logOk)
    \/ \E pw \in StoragePasswords : Restart(pw)
    \/ \E d \in KeyTickSteps : TickKeys(d)

SpecStartup == Init /\ [][StartupNext]_vars

SpecOptional == Init /\ [][OptionalNext]_vars

SpecRooms == Init /\ [][RoomsNext]_vars

SpecLimit == Init /\ [][LimitNext]_vars

SpecLock == Init /\ [][LockNext]_vars

SpecConn == Init /\ [][ConnNext]_vars
----------------------------------------------------------------------------
(* Claims about wrapKey / unwrapKey, checked under SpecKeys *)

\* C1: whatever the message service has received, the fields of a message do
\* not by themselves yield its plaintext: decrypting it with nothing but those
\* fields fails
C1_StoreCannotDecryptAlone ==
    \A m \in received : ~decryptMessage(m).ok

\* C11: a fetchAuthPublicKey call whose request to the identity service fails,
\* made while the cache still holds the key of an earlier fetch (its TTL
\* elapsed or not), does not throw and returns that key
C11_StaleKeyFallback ==
    (/\ lastFetch.called
     /\ ~lastFetch.fetchOk
     /\ lastFetch.entryBefore.key # NoKey)
    => (~lastFetch.threw /\ lastFetch.key = lastFetch.entryBefore.key)

\* C12: while the identity service is up, a finished request whose two tokens
\* belong to the same user and are each signed by the published key,
\* unexpired and in no revocation record was authorized, whatever the age of
\* the cache entry (the gate refreshes the key when it finds none)
C12_RefreshOnExpiry ==
    LET Valid(tok) ==
            /\ tok.signer = getPublicKey
            /\ now < tok.exp
            /\ tok.jti \notin gate.revokedAtStart
            /\ tok.jti \notin redisBlacklist
    IN  (/\ gate.pc \in {"Authorized", "Denied"}
         /\ jwtSecret # NoKey
         /\ Valid(gate.token)
         /\ Valid(gate.thirdPartyToken)
         /\ gate.token.sub = gate.thirdPartyToken.sub
         /\ gate.token.username = gate.thirdPartyToken.username)
        => gate.pc = "Authorized"

\* C13: when initMasterKey finds a key file that it cannot decrypt with the
\* configured storage secret, startup is aborted (no newly generated key
\* comes into service) and the key file is left as it was
C13_StartupFailsClosed ==
    [][(/\ phase = "down"
        /\ phase' # "down"
        /\ keyFile.exists
        /\ ~loadMasterKey(keyFile, storagePassword).found)
       => (/\ phase' = "aborted"
           /\ keyFile' = keyFile)]_vars

\* C14: whenever the service is up and no rotation is under way, the master
\* key, version and creation time in memory are those of the key file, the
\* last key material that was persisted (a rotation whose save fails leaves
\* memory as it was before the call)
C14_RotateAllOrNothing ==
    phase = "ready" =>
        /\ keyFile.exists
        /\ keyFile.data.key = currentMasterKey
        /\ keyFile.data.version = keyVersion
        /\ keyFile.data.createdAt = keyCreatedAt

\* C15: the version in every envelope wrapKey has returned is the version
\* that the master key which encrypted it was generated with, however wrapKey
\* calls are interleaved with initMasterKey and rotateMasterKey
C15_EnvelopeVersionIsKeyVersion ==
    \A w \in wrapped :
        \E i \in DOMAIN generatedKeys :
            generatedKeys[i] = [key |-> Base64Decode(w.env.wrappedKey).key,
                                version |-> w.env.version]

\* C15 witness: envelopes wrapped before and after a rotation, under two keys
\* and with two versions
C15_Witness ==
    /\ lastCall.op = "wrap"
    /\ \E v, w \in wrapped :
          /\ v.env.version # w.env.version
          /\ Base64Decode(v.env.wrappedKey).key # Base64Decode(w.env.wrappedKey).key

\* C16: on a store that was never restarted the n-th master key generated has
\* version n: the first has version 1 and every rotation adds exactly 1
C16_VersionsStartAtOne ==
    restarts = 0 =>
        \A i \in DOMAIN generatedKeys : generatedKeys[i].version = i

\* C17: every denial by one of the token checks (bad signature, expired,
\* revoked, subject mismatch) has the same status and body; stated against
\* the response the gate gives for a revoked token
C17_UniformDenial ==
    (gate.pc = "Denied" /\ gate.authPublicKey # NoKey) =>
        LET revoked == gateBlacklist(gate, TRUE, {gate.token.jti})
        IN  <<gate.status, gate.error, gate.message>>
                = <<revoked.status, revoked.error, revoked.message>>

\* C18: checkTokenBlacklist answers 'not revoked' only for a jti that is not
\* in the durable ledger (token_blacklist), whether Redis has no entry for it
\* or cannot be asked: a request gets past the revocation check only with a
\* bearer token whose jti was not in the ledger when the request arrived
C18_LedgerAuthoritative ==
    gate.pc = "ResourceTokenChecked" => gate.token.jti \notin gate.revokedAtStart

\* C19: a logout with a token that still verifies and whose jti is already in
\* token_blacklist answers 200 and leaves the table as it is
C19_RevokeIdempotent ==
    \A tok \in issued :
        (/\ tok.jti \in LedgerJtis(tokenBlacklist)
         /\ JwtVerify(tok, getPublicKey, 0, now).ok)
        => (/\ logout(tok, tokenBlacklist, now).status = 200
            /\ logout(tok, tokenBlacklist, now).rows = tokenBlacklist)

\* C20: cleanupExpiredTokens deletes only rows whose expired_at has passed, and
\* /verify never answers valid for a token whose jti a logout had put into
\* token_blacklist, pruned since or not: a token the identity service signed
\* is then rejected as revoked or as expired
C20_PruningIsSafe ==
    /\ [](lastVerify.called /\ lastVerify.wasRevoked =>
            /\ ~lastVerify.valid
            /\ lastVerify.token.signer = getPublicKey =>
                  lastVerify.error \in {"Token has been revoked", "Token has expired"})
    /\ [][\A row \in tokenBlacklist :
              row \notin tokenBlacklist' => row.expired_at < now]_vars

\* C20 witness: /verify was asked about a token that had been revoked and
\* whose row has been pruned, and rejected it as expired
C20_Witness ==
    /\ lastVerify.called
    /\ lastVerify.wasRevoked
    /\ lastVerify.token.jti \notin LedgerJtis(tokenBlacklist)
    /\ lastVerify.error = "Token has expired"
    /\ ~lastVerify.valid

\* C21: a finished request that obtained the public key and whose two tokens
\* belong to the same user, are signed by the published key and are in no
\* revocation record was authorized exactly when both tokens were presented
\* less than 30 seconds after their exp
C21_ClockSkewTolerance ==
    LET Sound(tok) ==
            /\ tok.signer = getPublicKey
            /\ tok.jti \notin gate.revokedAtStart
            /\ tok.jti \notin redisBlacklist
    IN  (/\ gate.pc \in {"Authorized", "Denied"}
         /\ gate.authPublicKey # NoKey
         /\ Sound(gate.token)
         /\ Sound(gate.thirdPartyToken)
         /\ gate.token.sub = gate.thirdPartyToken.sub
         /\ gate.token.username = gate.thirdPartyToken.username)
        => (gate.pc = "Authorized"
              <=> /\ now < gate.token.exp + ClockTolerance
                  /\ now < gate.thirdPartyToken.exp + ClockTolerance)

\* C22: a step that runs wrapKey or unwrapKey for a request is taken only for
\* a request the gate has Authorized, and never for a request presenting a
\* token whose jti has been revoked
C22_WrapOnlyWhenAuthorized ==
    [][(wrapped' # wrapped \/ lastCall' # lastCall)
          => /\ gate.pc = "Authorized"
             /\ gate.token.jti \notin LedgerJtis(tokenBlacklist)
             /\ gate.thirdPartyToken.jti \notin LedgerJtis(tokenBlacklist)]_vars

\* C23: every step that ends a wrap or unwrap attempt (the gate denies it, or
\* the route has run) appends exactly one AuditRecord carrying an outcome, and
\* no step changes or removes a record already written
C23_AuditOnAttempt ==
    [][/\ ((gate.pc # "Denied" /\ gate'.pc = "Denied")
             \/ (gate.pc = "Authorized" /\ gate'.pc = "idle"))
          => /\ Len(auditLog') = Len(auditLog) + 1
             /\ auditLog'[Len(auditLog')].outcome \in {"success", "failure", "denied"}
       /\ Len(auditLog') >= Len(auditLog)
       /\ SubSeq(auditLog', 1, Len(auditLog)) = auditLog]_vars

\* C24: while no master key has been generated or loaded, getCurrentMasterKey
\* throws and a wrapKey or unwrapKey call fails: it returns no envelope and no
\* plaintext and leaves the key, its version, its creation time, the key file
\* and the rotation log as they were
C24_NotInitialized ==
    [][(currentMasterKey = 0 /\ lastCall' # lastCall)
          => /\ getCurrentMasterKey(currentMasterKey).threw
             /\ ~lastCall'.result.ok
             /\ lastCall'.result.value = <<>>
             /\ lastCall'.op = "wrap" => lastCall'.arg = NoEnvelope
             /\ wrapped' = wrapped
             /\ UNCHANGED <<currentMasterKey, keyVersion, keyCreatedAt, keyFile,
                            rotationLog>>]_vars

\* an envelope wrapped before the restart was given to unwrapKey before
\* initMasterKey ran again, and the call failed
C24_Witness ==
    /\ phase = "down"
    /\ restarts = 1
    /\ currentMasterKey = 0
    /\ lastCall.op = "unwrap"
    /\ lastCall.genuine
    /\ ~lastCall.result.ok

\* C25: an unwrapKey call that fails on a running service, where the only
\* failure is the authentication tag, throws an error its caller can tell from
\* the error the same call throws when no master key is initialized
C25_IntegrityViolationDistinct ==
    (lastCall.op = "unwrap" /\ ~lastCall.result.ok /\ currentMasterKey # 0)
        => unwrapKeyThrown(lastCall.arg, currentMasterKey)
              # unwrapKeyThrown(lastCall.arg, 0)

\* C26: no step changes or removes a line of the rotation log, and a step
\* that replaces an existing master key and logs it appends exactly one
\* record, whose oldVersion is the version that was current before the step
\* (the running service's keyVersion, or the version of the key file at
\* startup) and whose newVersion is the version current after it
C26_RotationLogRecords ==
    [][/\ Len(rotationLog') >= Len(rotationLog)
       /\ SubSeq(rotationLog', 1, Len(rotationLog)) = rotationLog
       /\ (keyFile.exists /\ rotationLog' # rotationLog)
             => rotationLog' = Append(rotationLog,
                    [action |-> "KEY_ROTATION",
                     oldVersion |-> IF phase = "ready" THEN keyVersion
                                    ELSE keyFile.data.version,
                     newVersion |-> keyVersion'])]_vars

\* C27: when initMasterKey loads a key older than 90 days and returns
\* successfully, the current key is then no older than 90 days, its version
\* is the loaded version plus one, and it is the key in the key file
C27_RotateAtStartup ==
    [][(/\ phase = "down"
        /\ phase' = "ready"
        /\ loadMasterKey(keyFile, storagePassword).found
        /\ now - loadMasterKey(keyFile, storagePassword).keyData.createdAt
              > MaxAgeSeconds)
          => /\ now' - keyCreatedAt' <= MaxAgeSeconds
             /\ keyVersion' = loadMasterKey(keyFile, storagePassword).keyData.version + 1
             /\ currentMasterKey' # 0
             /\ loadMasterKey(keyFile', storagePassword').keyData
                   = [key |-> currentMasterKey', version |-> keyVersion',
                      createdAt |-> keyCreatedAt']]_vars

\* the service was started again more than 90 days after its key was made
\* and is ready with a key of the next version made at this start
C27_Witness ==
    /\ phase = "ready"
    /\ restarts = 1
    /\ now > MaxAgeSeconds
    /\ keyCreatedAt = now
    /\ keyVersion = 3
    /\ Len(generatedKeys) = 2
    /\ keyFile.data.version = 3
    /\ keyFile.data.createdAt = now

\* C28: in every state getKeyInfo returns exactly version, algorithm,
\* createdAt and keyId; version and createdAt are the module's, keyId is the
\* hash-derived identifier (or null), and apart from keyId the output is the
\* same whatever the master-key bytes are; the body of GET /info is the same
\* whatever the key, its version and its creation time are
C28_InfoHidesKey ==
    LET out == getKeyInfo(currentMasterKey, keyVersion, keyCreatedAt)
    IN  /\ DOMAIN out = {"version", "algorithm", "createdAt", "keyId"}
        /\ out.version = keyVersion
        /\ out.algorithm = "AES-256-GCM"
        /\ out.createdAt = keyCreatedAt
        /\ out.keyId = IF currentMasterKey = 0 THEN NullKeyId
                       ELSE KeyId(currentMasterKey)
        /\ \A k \in KeyBytes :
              /\ [f \in DOMAIN out \ {"keyId"} |-> out[f]]
                    = [f \in DOMAIN getKeyInfo(k, keyVersion, keyCreatedAt) \ {"keyId"}
                          |-> getKeyInfo(k, keyVersion, keyCreatedAt)[f]]
              /\ info(k, 1, 0) = info(currentMasterKey, keyVersion, keyCreatedAt)

\* the service runs on its second master key, whose identifier getKeyInfo
\* returns
C28_Witness ==
    /\ phase = "ready"
    /\ keyVersion = 3
    /\ currentMasterKey = 2
    /\ getKeyInfo(currentMasterKey, keyVersion, keyCreatedAt).keyId = KeyId(2)

\* C29: every token /login has issued verifies, at the moment it was issued,
\* under the public key the identity service publishes and itself verifies
\* with
C29_PublishedKeyMatchesSigner ==
    \A token \in issued : JwtVerify(token, getPublicKey, 0, token.iat).ok

\* C30: a key file just written loads, under the same storage password, to
\* the key, version and creation time that were saved; and when a restarted
\* process loads the key file without generating a key, its current key and
\* version are those of the last key the process before it made current
C30_PersistenceRoundTrip ==
    [][/\ keyFile' # keyFile
          => loadMasterKey(keyFile', storagePassword)
                = [found |-> TRUE,
                   keyData |-> [key |-> currentMasterKey', version |-> keyVersion',
                                createdAt |-> keyCreatedAt']]
       /\ (/\ phase = "down"
           /\ restarts > 0
           /\ phase' = "ready"
           /\ keyFile.storageKey = storagePassword
           /\ generatedKeys' = generatedKeys)
          => /\ currentMasterKey' = generatedKeys[Len(generatedKeys)].key
             /\ keyVersion' = generatedKeys[Len(generatedKeys)].version]_vars

\* C31: a request optionalAuth has handled got no error response and had
\* next() called exactly once; when it carried no bearer token, or one that
\* verifyAuth does not accept, it went on as anonymous
C31_OptionalAuthNeverBlocks ==
    optionalReq.called
        => /\ optionalReq.outcome.responses = 0
           /\ optionalReq.outcome.nextCalls = 1
           /\ optionalReq.outcome.auth.set
           /\ (\/ ~IsBearer(optionalReq.header)
               \/ verifyAuth(optionalReq.header, optionalReq.authPublicKey,
                             optionalReq.at, TRUE, redisBlacklist).nextCalls = 0)
                 => optionalReq.outcome.auth.isAnonymous

\* C32: when the owner of a room leaves it, the request succeeds and its
\* changes are committed: the leaver's membership is inactive, and the
\* earliest-joined other active member is the owner, or, with no other
\* active member, the room is deactivated.
C32_OwnerLeaveHandsOver ==
    (lastRoomResponse.op = "leave" /\ lastRoomResponse.wasOwner)
        => /\ lastRoomResponse.status = 200
           /\ ActiveMemberRows(roomMembers, lastRoomResponse.room,
                               lastRoomResponse.user) = {}
           /\ IF lastRoomResponse.others = {}
              THEN ~chatRooms[lastRoomResponse.room].is_active
              ELSE \E m \in roomMembers :
                      /\ m.room_id = lastRoomResponse.room
                      /\ m.user_id \in lastRoomResponse.others
                      /\ m.role = "owner"

\* C33: no step of join or invite, alone or interleaved with other requests,
\* raises the number of active members of a room above the room's max_members.
C33_NeverAboveMaxMembers ==
    [][\A room \in RoomIds :
          ActiveCount(roomMembers', room) > ActiveCount(roomMembers, room)
              => ActiveCount(roomMembers', room) <= chatRooms'[room].max_members]_vars

\* C34: a client that is back in the pool is not in a transaction: every
\* handler that has issued BEGIN issues COMMIT or ROLLBACK before it releases
\* the client.
C34_ReleasedClientsEndedTransaction ==
    \A c \in ClientIds : ~dbClients[c].busy => ~dbClients[c].inTransaction

\* C35: in any window of length windowMs the middleware lets through at most
\* maxRequests requests of one user; it answers 429 only when the user has
\* used up the window, and the request it rejects is not counted: the
\* timestamps it keeps are those of the requests it has let through.
C35_AtMostMaxPerWindow ==
    limiter.created
        => /\ \A u \in LimitUsers, t \in 0..MaxLimitTime :
                 Cardinality({i \in DOMAIN passedAt[u] :
                                 t - limiter.windowMs < passedAt[u][i] /\ passedAt[u][i] <= t})
                     <= limiter.maxRequests
           /\ \A u \in DOMAIN userRequests :
                 \E k \in 0..Len(passedAt[u]) :
                     userRequests[u] = SubSeq(passedAt[u], k + 1, Len(passedAt[u]))
           /\ lastLimit.status = 429
                 => /\ lastLimit.nextCalls = 0
                    /\ userRequests[lastLimit.user] =
                           validRequests(passedAt[lastLimit.user],
                                         lastLimit.at - limiter.windowMs)
                    /\ Len(userRequests[lastLimit.user]) >= limiter.maxRequests

\* a user whose earlier requests have left the window has used up the window
\* again and has been answered 429
C35_Witness ==
    /\ lastLimit.status = 429
    /\ Len(passedAt[lastLimit.user]) > limiter.maxRequests

\* C36: at no time do two callers hold the lock of one lockKey with its time
\* to live not yet passed; and a release() by a caller whose lock is no longer
\* the one stored under the key (it has expired, and another caller may have
\* acquired the lock since) leaves the store as it is.
C36_LockMutualExclusion ==
    [][/\ \A c1 \in LockCallers, c2 \in LockCallers :
             (/\ lockCallers'[c1].pc = "holding" /\ now' < lockCallers'[c1].expiresAt
              /\ lockCallers'[c2].pc = "holding" /\ now' < lockCallers'[c2].expiresAt
              /\ lockCallers'[c1].key = lockCallers'[c2].key)
                 => c1 = c2
       /\ \A c \in LockCallers :
             (/\ lockCallers[c].pc = "holding" /\ lockCallers'[c].pc = "idle"
              /\ ~(/\ lockExists(lockStore, lockCallers[c].key, now)
                   /\ lockStore[lockCallers[c].key].value = lockCallers[c].value))
                 => lockStore' = lockStore]_vars

\* a caller whose lock had expired has called release() while another caller
\* holds the lock of the same key: the script has returned 0 and the other
\* caller's lock is in place
C36_Witness ==
    /\ lastRelease.result = "0"
    /\ \E c \in LockCallers :
          /\ c # lastRelease.caller
          /\ lockCallers[c].pc = "holding"
          /\ now < lockCallers[c].expiresAt
          /\ lockExists(lockStore, lockCallers[c].key, now)
          /\ lockStore[lockCallers[c].key].value = lockCallers[c].value
          /\ lockCallers[c].value > 1

\* C37: under any interleaving of its callers the process has at most one
\* Redis client that is not closed; every client getRedisClient has returned
\* had completed connect() when it was returned; and once closeRedisClient
\* has closed a client, that client is no longer the one getRedisClient
\* hands out, so that the next call makes a new one.
C37_SingleConnectedClient ==
    /\ Cardinality({id \in created : connections[id] # "closed"}) <= 1
    /\ \A r \in returned : r.state = "ready"
    /\ client # NullClient => connections[client] # "closed"

C3_OldEnvelopesStillUnwrap ==
    (lastCall.op = "unwrap" /\ lastCall.arg = lastCall.src.env)
        => lastCall.result = Success(lastCall.src.dek)

\* C4 (as claimed): no wrapKey call runs the cipher with a master key and IV
\* that an earlier wrapKey call ran with.
C4_NonceNeverReused ==
    lastCall.op = "wrap" => ~lastCall.reused

\* C5: unwrapKey never returns a value for an envelope whose wrappedKey and
\* authTag are not those of one envelope wrapKey returned (a replaced
\* ciphertext, a replaced tag, a missing or empty tag).
C5_TamperDetected ==
    (lastCall.op = "unwrap" /\ ~lastCall.genuine) => ~lastCall.result.ok

C5_Witness ==
    /\ lastCall.op = "unwrap"
    /\ lastCall.sameKey
    /\ lastCall.arg.wrappedKey = lastCall.src.env.wrappedKey
    /\ lastCall.arg.authTag = AbsentField
    /\ ~lastCall.result.ok

\* C6: a token whose jti a successful logout had put into token_blacklist
\* before the request arrived is never authorized by verifyDualAuth
C6_RevokedTokenRejected ==
    gate.pc = "Authorized" => gate.token.jti \notin gate.revokedAtStart

\* C7: a request is authorized only when each of the two tokens is signed by
\* the identity service's published key, is unexpired (within the clock
\* tolerance) and has a jti that was not in token_blacklist when the request
\* arrived
C7_BothTokensValid ==
    gate.pc = "Authorized" =>
        \A tok \in {gate.token, gate.thirdPartyToken} :
            /\ tok.signer = getPublicKey
            /\ now <= tok.exp + ClockTolerance
            /\ tok.jti \notin gate.revokedAtStart

\* C8: a finished request that obtained the public key and whose two tokens
\* are each signed by the published key, unexpired and not revoked (neither
\* in token_blacklist at arrival nor in Redis) but differ in sub or in
\* username was denied with 401 "Token mismatch"; and an authorized request
\* has in req.auth the sub and username of both tokens
C8_SubjectMismatchDenied ==
    LET OtherwiseValid(tok) ==
            /\ tok.signer = getPublicKey
            /\ now < tok.exp
            /\ tok.jti \notin gate.revokedAtStart
            /\ tok.jti \notin redisBlacklist
    IN  /\ (/\ gate.pc \in {"Authorized", "Denied"}
            /\ gate.authPublicKey # NoKey
            /\ OtherwiseValid(gate.token)
            /\ OtherwiseValid(gate.thirdPartyToken)
            /\ \/ gate.token.sub # gate.thirdPartyToken.sub
               \/ gate.token.username # gate.thirdPartyToken.username)
           => (gate.pc = "Denied" /\ gate.status = 401 /\ gate.error = "Token mismatch")
        /\ gate.pc = "Authorized" =>
              /\ gate.auth.id = gate.token.sub
              /\ gate.auth.id = gate.thirdPartyToken.sub
              /\ gate.auth.username = gate.token.username
              /\ gate.auth.username = gate.thirdPartyToken.username

\* C8 witness: two valid tokens of the same sub with different usernames were
\* denied as a mismatch
C8_Witness ==
    /\ gate.pc = "Denied"
    /\ gate.error = "Token mismatch"
    /\ gate.token.sub = gate.thirdPartyToken.sub
    /\ gate.token.username # gate.thirdPartyToken.username
    /\ gate.token.signer = getPublicKey
    /\ gate.thirdPartyToken.signer = getPublicKey
    /\ now < gate.token.exp
    /\ now < gate.thirdPartyToken.exp

\* C9: a request moves only along Start -> (resource token verified, Redis
\* awaited) -> ResourceTokenChecked -> IdentityTokenChecked -> SubjectsMatched
\* -> Authorized, or from one of these to Denied; an authorized request has
\* called next() once and sent no response, a denied one has sent one response
\* and never called next(), and a request under way has done neither
C9_StateMachine ==
    /\ [](/\ gate.pc = "Authorized" => (gate.nextCalls = 1 /\ gate.responses = 0)
          /\ gate.pc = "Denied" => (gate.nextCalls = 0 /\ gate.responses = 1)
          /\ gate.pc \notin {"Authorized", "Denied"} =>
                (gate.nextCalls = 0 /\ gate.responses = 0))
    /\ [][gate'.pc # gate.pc =>
             <<gate.pc, gate'.pc>> \in
                 {<<"idle", "Start">>,
                  <<"Start", "AwaitBlacklist">>, <<"Start", "Denied">>,
                  <<"AwaitBlacklist", "ResourceTokenChecked">>,
                  <<"AwaitBlacklist", "Denied">>,
                  <<"ResourceTokenChecked", "IdentityTokenChecked">>,
                  <<"ResourceTokenChecked", "Denied">>,
                  <<"IdentityTokenChecked", "SubjectsMatched">>,
                  <<"IdentityTokenChecked", "Denied">>,
                  <<"SubjectsMatched", "Authorized">>,
                  <<"SubjectsMatched", "Denied">>,
                  <<"Authorized", "idle">>, <<"Denied", "idle">>}]_vars

\* C9 witness: a request went through every check and was handed on
C9_Witness ==
    /\ gate.pc = "Authorized"
    /\ gate.nextCalls = 1
    /\ gate.responses = 0
    /\ gate.status = 0

\* C10: a request that finds no public key in the cache is denied at once,
\* and every request that got past that point, in particular every authorized
\* one, holds a public key it obtained
C10_FailClosedWithoutKey ==
    /\ [](gate.pc \notin {"idle", "Start", "Denied"} => gate.authPublicKey # NoKey)
    /\ [][(gate.pc = "Start" /\ CacheGet(publicKeyCache, now) = NoKey)
              => gate'.pc \in {"Start", "Denied"}]_vars

\* C10 witness: a request with two matching, valid tokens was answered 503
\* because the cache held no public key
C10_Witness ==
    /\ gate.pc = "Denied"
    /\ gate.status = 503
    /\ gate.authPublicKey = NoKey
    /\ gate.token = gate.thirdPartyToken
    /\ gate.token.signer = getPublicKey
    /\ now < gate.token.exp

====
